---- MODULE Spec2Model ----
(***************************************************************************)
(* Backtest engine of the rebalancing vault: runBacktest and its helpers   *)
(* (src/src/backtest/engine.ts, lines 1-584), the strategy evaluators and  *)
(* the Strategy Runner (strategies.ts) and the concentrated-liquidity math *)
(* (src/src/v3math.ts).                                                    *)
(*                                                                         *)
(* JavaScript numbers are modelled as decimal fixed-point numbers with     *)
(* four fractional digits: the integer n stands for n / Scale.  Products   *)
(* and quotients truncate toward zero, so a computation loses precision    *)
(* the way the floating-point code does, only more coarsely.  A market     *)
(* data field that may be missing or non-finite is a record                *)
(* [fin |-> BOOLEAN, v |-> number]; a strategy score, which may be         *)
(* -Infinity, is a record of the same shape.                               *)
(***************************************************************************)
EXTENDS Integers, Sequences, FiniteSets, TLC

\* ------------------------------------------------------------------------
\* Fixed-point arithmetic (the model of JavaScript number arithmetic)
\* ------------------------------------------------------------------------

Scale == 10 ^ 4

\* a const declaration: the initializer v is evaluated once, and F is the rest of
\* the block, which sees its value
Bind(v, F(_)) == CHOOSE r \in { F(x) : x \in {v} } : TRUE

Abs(x) == IF x < 0 THEN -x ELSE x

Min(a, b) == IF a < b THEN a ELSE b

Max(a, b) == IF a > b THEN a ELSE b

\* Infinity and NaN: the two largest integers stand for them, -PosInf for
\* -Infinity
PosInf == 2 * (2 ^ 30 - 1) + 1

NotANumber == PosInf - 1

IsNaN(x) == x = NotANumber

IsInf(x) == x = PosInf \/ x = -PosInf

\* a * b for a, b >= 0, split so that no intermediate product overflows
MulU(a, b) ==
    LET a1 == a \div Scale
        a0 == a % Scale
        b1 == b \div Scale
        b0 == b % Scale
    IN  a1 * b1 * Scale + a1 * b0 + a0 * b1 + (a0 * b0) \div Scale

Mul(a, b) ==
    IF IsNaN(a) \/ IsNaN(b) THEN NotANumber
    ELSE IF IsInf(a) \/ IsInf(b)
    THEN IF a = 0 \/ b = 0 THEN NotANumber
         ELSE IF (a < 0) = (b < 0) THEN PosInf ELSE -PosInf
    ELSE IF (a < 0) = (b < 0) THEN MulU(Abs(a), Abs(b)) ELSE -MulU(Abs(a), Abs(b))

RECURSIVE DivDigits(_, _, _)
DivDigits(r, b, n) ==
    IF n = 0 THEN 0
    ELSE ((r * 10) \div b) * (10 ^ (n - 1)) + DivDigits((r * 10) % b, b, n - 1)

\* a / b for a >= 0, b > 0, by long division
DivU(a, b) == (a \div b) * Scale + DivDigits(a % b, b, 4)

Div(a, b) ==
    IF IsNaN(a) \/ IsNaN(b) THEN NotANumber
    ELSE IF b = 0
    THEN IF a = 0 THEN NotANumber ELSE IF a > 0 THEN PosInf ELSE -PosInf
    ELSE IF IsInf(a)
    THEN IF IsInf(b) THEN NotANumber
         ELSE IF (a < 0) = (b < 0) THEN PosInf ELSE -PosInf
    ELSE IF IsInf(b) THEN 0
    ELSE IF (a < 0) = (b < 0) THEN DivU(Abs(a), Abs(b)) ELSE -DivU(Abs(a), Abs(b))

\* a + b and a - b where an operand may be infinite or NaN
Add(a, b) ==
    IF IsNaN(a) \/ IsNaN(b) THEN NotANumber
    ELSE IF IsInf(a) THEN (IF IsInf(b) /\ a # b THEN NotANumber ELSE a)
    ELSE IF IsInf(b) THEN b
    ELSE a + b

Sub(a, b) == IF IsNaN(b) THEN NotANumber ELSE Add(a, -b)

\* a <= b, false when an operand is NaN
LE(a, b) == ~IsNaN(a) /\ ~IsNaN(b) /\ a <= b

RECURSIVE ISqrtIter(_, _, _)
ISqrtIter(n, lo, hi) ==
    IF lo >= hi THEN lo
    ELSE LET mid == (lo + hi + 1) \div 2
         IN  IF mid * mid <= n THEN ISqrtIter(n, mid, hi)
             ELSE ISqrtIter(n, lo, mid - 1)

ISqrt(n) == ISqrtIter(n, 0, Min(n, 46340))

\* Math.sqrt(x), x >= 0
Sqrt(x) == IF x <= 200000 THEN ISqrt(x * Scale) ELSE ISqrt(x) * 100

\* Math.log(x), x > 0: range reduction by ln 2, then the atanh series
RECURSIVE Ln(_)
Ln(x) ==
    IF x > 2 * Scale THEN 6931 + Ln(x \div 2)
    ELSE IF 2 * x < Scale THEN Ln(2 * x) - 6931
    ELSE LET z  == Div(x - Scale, x + Scale)
             z2 == Mul(z, z)
             z3 == Mul(z, z2)
             z5 == Mul(z3, z2)
             z7 == Mul(z5, z2)
         IN  2 * (z + z3 \div 3 + z5 \div 5 + z7 \div 7)

\* Math.log10(x), x > 0
Log10(x) == Div(Ln(x), 23026)

\* a number that is always finite
Fin(n) == [fin |-> TRUE, v |-> n]

\* NaN (a missing or unparsable market-data field)
NaN == [fin |-> FALSE, v |-> 0]

\* -Infinity, the score of "no candidate"
NegInf == [fin |-> FALSE, v |-> 0]

\* a > b on scores: nothing is below -Infinity
ScoreGT(a, b) == a.fin /\ (~b.fin \/ a.v > b.v)

clamp(value, min, max) == Max(min, Min(max, value))

\* ------------------------------------------------------------------------
\* v3math.ts
\* ------------------------------------------------------------------------

\* the in-range branch of getAmountsForLiquidity: a mix of base and quote
InRangeAmounts(liquidity, lower, upper, price) ==
    LET sqrtLower == Sqrt(lower)
        sqrtUpper == Sqrt(upper)
        sqrtPrice == Sqrt(price)
    IN  [baseAmount  |-> Mul(liquidity, Div(Scale, sqrtPrice) - Div(Scale, sqrtUpper)),
         quoteAmount |-> Mul(liquidity, sqrtPrice - sqrtLower)]

\* getAmountsForLiquidity whose above-range quote amount forgets to subtract sqrtLower
getAmountsForLiquidityFromZero(liquidity, lower, upper, price) ==
    LET sqrtLower == Sqrt(lower)
        sqrtUpper == Sqrt(upper)
    IN  IF price <= lower
        THEN [baseAmount  |-> Mul(liquidity, Div(Scale, sqrtLower) - Div(Scale, sqrtUpper)),
              quoteAmount |-> 0]
        ELSE IF price >= upper
        THEN [baseAmount  |-> 0,
              quoteAmount |-> Mul(liquidity, sqrtUpper)]
        ELSE InRangeAmounts(liquidity, lower, upper, price)

getAmountsForLiquidity(liquidity, lower, upper, price) ==
    LET sqrtLower == Sqrt(lower)
        sqrtUpper == Sqrt(upper)
    IN  IF price <= lower
        THEN [baseAmount  |-> Mul(liquidity, Div(Scale, sqrtLower) - Div(Scale, sqrtUpper)),
              quoteAmount |-> 0]
        ELSE IF price >= upper
        THEN [baseAmount  |-> 0,
              quoteAmount |-> Mul(liquidity, sqrtUpper - sqrtLower)]
        ELSE InRangeAmounts(liquidity, lower, upper, price)

getPositionValueUsd(liquidity, lower, upper, price) ==
    Bind(getAmountsForLiquidity(liquidity, lower, upper, price), LAMBDA a :
        Mul(a.baseAmount, price) + a.quoteAmount)

\* addLiquidityAmounts sized by the more plentiful asset instead of the scarcer one
addLiquidityAmountsGreedy(baseAvailable, quoteAvailable, lower, upper, price) ==
    LET sqrtLower == Sqrt(lower)
        sqrtUpper == Sqrt(upper)
        effectivePrice == Max(lower, Min(upper, price))
        sqrtPrice == Sqrt(effectivePrice)
    IN  IF price <= lower
        THEN LET baseDenom == Div(Scale, sqrtLower) - Div(Scale, sqrtUpper)
             IN  [baseUsed |-> baseAvailable, quoteUsed |-> 0,
                  liquidity |-> Div(baseAvailable, baseDenom)]
        ELSE IF price >= upper
        THEN LET quoteDenom == sqrtUpper - sqrtLower
             IN  [baseUsed |-> 0, quoteUsed |-> quoteAvailable,
                  liquidity |-> Div(quoteAvailable, quoteDenom)]
        ELSE LET baseDenom  == Div(Scale, sqrtPrice) - Div(Scale, sqrtUpper)
                 quoteDenom == sqrtPrice - sqrtLower
                 liquidityFromBase ==
                     IF baseDenom > 0 THEN Div(baseAvailable, baseDenom) ELSE PosInf
                 liquidityFromQuote ==
                     IF quoteDenom > 0 THEN Div(quoteAvailable, quoteDenom) ELSE PosInf
             IN  Bind(Max(liquidityFromBase, liquidityFromQuote), LAMBDA liquidity :
                     [baseUsed  |-> Mul(liquidity, baseDenom),
                      quoteUsed |-> Mul(liquidity, quoteDenom),
                      liquidity |-> liquidity])

addLiquidityAmounts(baseAvailable, quoteAvailable, lower, upper, price) ==
    LET sqrtLower == Sqrt(lower)
        sqrtUpper == Sqrt(upper)
        effectivePrice == Max(lower, Min(upper, price))
        sqrtPrice == Sqrt(effectivePrice)
    IN  IF price <= lower
        THEN LET baseDenom == Div(Scale, sqrtLower) - Div(Scale, sqrtUpper)
             IN  [baseUsed |-> baseAvailable, quoteUsed |-> 0,
                  liquidity |-> Div(baseAvailable, baseDenom)]
        ELSE IF price >= upper
        THEN LET quoteDenom == sqrtUpper - sqrtLower
             IN  [baseUsed |-> 0, quoteUsed |-> quoteAvailable,
                  liquidity |-> Div(quoteAvailable, quoteDenom)]
        ELSE LET baseDenom  == Div(Scale, sqrtPrice) - Div(Scale, sqrtUpper)
                 quoteDenom == sqrtPrice - sqrtLower
                 liquidityFromBase ==
                     IF baseDenom > 0 THEN Div(baseAvailable, baseDenom) ELSE PosInf
                 liquidityFromQuote ==
                     IF quoteDenom > 0 THEN Div(quoteAvailable, quoteDenom) ELSE PosInf
             IN  Bind(Min(liquidityFromBase, liquidityFromQuote), LAMBDA liquidity :
                     [baseUsed  |-> Mul(liquidity, baseDenom),
                      quoteUsed |-> Mul(liquidity, quoteDenom),
                      liquidity |-> liquidity])

getEffectiveSwapPrice(midPrice, tradeValueUsd, poolLiquidityUsd, isBuy, spreadBps, impactBps) ==
    LET spreadFactor == Div(spreadBps, 10000 * Scale)
        tradeRatio   == Div(tradeValueUsd, poolLiquidityUsd)
        \* (impactBps / 10000) * (tradeRatio * 100), multiplied in the order
        \* that keeps every intermediate product representable
        impactFactor == Mul(tradeRatio, Mul(Div(impactBps, 10000 * Scale), 100 * Scale))
    IN  IF isBuy
        THEN Mul(midPrice, Scale + spreadFactor \div 2 + impactFactor)
        ELSE Mul(midPrice, Scale - spreadFactor \div 2 - impactFactor)

getLiquidityConcentration(lower, upper, price) ==
    LET sqrtLower  == Sqrt(lower)
        sqrtUpper  == Sqrt(upper)
        sqrtPrice  == Sqrt(Max(lower, Min(upper, price)))
        rangeWidth == sqrtUpper - sqrtLower
    IN  IF rangeWidth <= 0 THEN Scale ELSE Div(sqrtPrice, rangeWidth)

estimateMevCost(tradeValueUsd, poolLiquidityUsd, volatility, baseMevBps) ==
    IF tradeValueUsd <= 0 \/ poolLiquidityUsd <= 0 THEN 0
    ELSE LET tradeRatio == Div(tradeValueUsd, poolLiquidityUsd)
             \* min(2, 1 + log10(1 + tradeRatio * 100)); the minimum is 2 from
             \* tradeRatio = 0.09 on, so larger ratios are not multiplied out
             sizeFactor == IF tradeRatio >= Scale \div 10 THEN 2 * Scale
                           ELSE Min(2 * Scale, Scale + Log10(Scale + Mul(tradeRatio, 100 * Scale)))
             volFactor  == Max(Scale \div 2, Min(2 * Scale, Div(volatility, Scale \div 2)))
             smallTradeDiscount ==
                 IF tradeValueUsd < 500 * Scale
                 THEN Div(tradeValueUsd, 500 * Scale) ELSE Scale
             mevRate == Mul(Mul(Mul(Div(baseMevBps, 10000 * Scale), sizeFactor),
                                volFactor), smallTradeDiscount)
         IN  Mul(tradeValueUsd, mevRate)

calculateFeeShare(positionLiquidity, positionLower, positionUpper, poolTvlUsd, currentPrice, avgPoolRangeWidth) ==
    IF currentPrice < positionLower \/ currentPrice > positionUpper THEN 0
    ELSE LET positionConcentration ==
                 getLiquidityConcentration(positionLower, positionUpper, currentPrice)
             avgLower == Mul(currentPrice, Scale - avgPoolRangeWidth)
             avgUpper == Mul(currentPrice, Scale + avgPoolRangeWidth)
             avgPoolConcentration ==
                 getLiquidityConcentration(avgLower, avgUpper, currentPrice)
         IN  Bind(getPositionValueUsd(positionLiquidity, positionLower, positionUpper,
                                      currentPrice), LAMBDA positionValueUsd :
             IF poolTvlUsd <= 0 \/ positionValueUsd >= poolTvlUsd THEN Scale
             ELSE LET capitalShare == Div(positionValueUsd, poolTvlUsd)
                  IN  Bind(avgPoolConcentration, LAMBDA avgConcentration :
                      Min(Mul(capitalShare,
                              IF avgConcentration > 0
                              THEN Div(positionConcentration, avgConcentration)
                              ELSE Scale),
                          Scale)))

\* ------------------------------------------------------------------------
\* strategies.ts: the four evaluators and the Strategy Runner
\* ------------------------------------------------------------------------

\* RebalanceParams of the run: defaultParams
defaultParams ==
    [minGasMultiple       |-> 15000,
     targetRebalanceHours |-> 12 * Scale,
     bandWidthK           |-> 12000,
     minBandWidth         |-> 100,
     maxBandWidth         |-> 2500,
     driftThreshold       |-> 300,
     trendThreshold       |-> 60,
     maxSkew              |-> 400,
     rewardsClaimUsd      |-> 50 * Scale]

NoopAction == [type |-> "NOOP"]

noop(reason) ==
    [shouldRebalance |-> FALSE, score |-> NegInf, reason |-> reason,
     actions |-> <<NoopAction>>, strategy |-> "undefined"]

volToBandWidth(vol, targetHours, k) ==
    LET yearHours == 365 * 24 * Scale
        stdev     == Mul(vol, Sqrt(Div(targetHours, yearHours)))
    IN  Mul(k, stdev)

estimateFeeGain(ctx, capitalUsd) ==
    LET horizonDays == Div(ctx.params.targetRebalanceHours, 24 * Scale)
        feeGain     == Mul(Mul(capitalUsd, ctx.pool.feesApr), Div(horizonDays, 365 * Scale))
        rewardsGain == Mul(Mul(capitalUsd, ctx.pool.emissionsApr), Div(horizonDays, 365 * Scale))
    IN  feeGain + rewardsGain

\* The evaluators read position.liquidityUsd (PositionState of strategies.ts);
\* the positions the engine creates carry no such field, so the read yields
\* undefined and the term is 0.
strategyTotalVaultValue(ctx) ==
    LET baseValue     == Mul(ctx.vault.baseBalance, ctx.pool.price)
        quoteValue    == ctx.vault.quoteBalance
        positionValue == 0
    IN  baseValue + quoteValue + positionValue

\* a gate that compares the gain with the gas cost alone
isWorthRebalanceAtCost(gasUsd, expectedGainUsd, multiple) ==
    expectedGainUsd >= gasUsd

isWorthRebalance(gasUsd, expectedGainUsd, multiple) ==
    expectedGainUsd >= Mul(gasUsd, multiple)

RangeAroundTWAPDecide(ctx) ==
    IF ctx.pool.type # "cl" THEN noop("CL-only strategy")
    ELSE
    LET center == ctx.pool.twapLong
        width  == clamp(volToBandWidth(ctx.pool.vol, ctx.params.targetRebalanceHours, ctx.params.bandWidthK),
                        ctx.params.minBandWidth, ctx.params.maxBandWidth)
        lower  == Mul(center, Scale - width)
        upper  == Mul(center, Scale + width)
        position == ctx.vault.position
        priceOutOfRange ==
            ~position.open \/ ctx.pool.price < position.lower \/ ctx.pool.price > position.upper
        widthChanged ==
            ~position.open
            \/ Abs(Div(position.upper - position.lower, 2 * center) - width) > 50
        expectedGainUsd == estimateFeeGain(ctx, strategyTotalVaultValue(ctx))
    IN  IF ~priceOutOfRange /\ ~widthChanged
        THEN noop("Price inside range; width stable")
        ELSE IF ~isWorthRebalance(ctx.pool.gasUsd, expectedGainUsd, ctx.params.minGasMultiple)
        THEN [shouldRebalance |-> FALSE,
              score |-> Fin(expectedGainUsd - ctx.pool.gasUsd),
              reason |-> "Fee gain below gas threshold",
              actions |-> <<NoopAction>>, strategy |-> "undefined"]
        ELSE [shouldRebalance |-> TRUE,
              score |-> Fin(expectedGainUsd - ctx.pool.gasUsd),
              reason |-> IF priceOutOfRange THEN "Price out of range"
                         ELSE "Volatility regime shift",
              actions |-> << [type |-> "REMOVE_LIQUIDITY", percent |-> Scale],
                             [type |-> "ADD_LIQUIDITY", lower |-> lower, upper |-> upper,
                              amountUsd |-> strategyTotalVaultValue(ctx)] >>,
              strategy |-> "undefined"]

TrendSkewDecide(ctx) ==
    IF ctx.pool.type # "cl" THEN noop("CL-only strategy")
    ELSE
    LET momentum == Div(ctx.pool.twapShort, ctx.pool.twapLong) - Scale
    IN  IF Abs(momentum) < ctx.params.trendThreshold THEN noop("No trend signal")
        ELSE
        LET skew   == clamp(momentum * 2, -ctx.params.maxSkew, ctx.params.maxSkew)
            center == Mul(ctx.pool.price, Scale + skew)
            width  == clamp(volToBandWidth(ctx.pool.vol, ctx.params.targetRebalanceHours, ctx.params.bandWidthK),
                            ctx.params.minBandWidth, ctx.params.maxBandWidth)
            lower  == Mul(center, Scale - width)
            upper  == Mul(center, Scale + width)
            expectedGainUsd == estimateFeeGain(ctx, strategyTotalVaultValue(ctx))
        IN  IF ~isWorthRebalance(ctx.pool.gasUsd, expectedGainUsd, ctx.params.minGasMultiple)
            THEN [shouldRebalance |-> FALSE,
                  score |-> Fin(expectedGainUsd - ctx.pool.gasUsd),
                  reason |-> "Trend detected but gas too high",
                  actions |-> <<NoopAction>>, strategy |-> "undefined"]
            ELSE [shouldRebalance |-> TRUE,
                  score |-> Fin(expectedGainUsd - ctx.pool.gasUsd),
                  reason |-> "Trend skew reposition",
                  actions |-> << [type |-> "REMOVE_LIQUIDITY", percent |-> Scale],
                                 [type |-> "ADD_LIQUIDITY", lower |-> lower, upper |-> upper,
                                  amountUsd |-> strategyTotalVaultValue(ctx)] >>,
                  strategy |-> "undefined"]

\* InventoryTargetDecide without the test of the pool type
InventoryTargetDecideAnyPool(ctx) ==
    LET baseValue  == Mul(ctx.vault.baseBalance, ctx.pool.price)
        quoteValue == ctx.vault.quoteBalance
        total      == baseValue + quoteValue
    IN  IF total <= 0 THEN noop("Empty vault")
        ELSE
        LET targetBaseValue == Mul(total, Scale \div 2)
            drift == Div(baseValue - targetBaseValue, total)
        IN  IF Abs(drift) < ctx.params.driftThreshold
            THEN noop("Inventory within drift threshold")
            ELSE
            LET valueToSwap == Abs(baseValue - targetBaseValue)
                expectedGainUsd == estimateFeeGain(ctx, total)
                from   == IF drift > 0 THEN "base" ELSE "quote"
                amount == IF from = "base" THEN Div(valueToSwap, ctx.pool.price)
                          ELSE valueToSwap
            IN  IF ~isWorthRebalance(ctx.pool.gasUsd, expectedGainUsd, ctx.params.minGasMultiple)
                THEN [shouldRebalance |-> FALSE,
                      score |-> Fin(expectedGainUsd - ctx.pool.gasUsd),
                      reason |-> "Inventory drift but gas too high",
                      actions |-> <<NoopAction>>, strategy |-> "undefined"]
                ELSE [shouldRebalance |-> TRUE,
                      score |-> Fin(expectedGainUsd - ctx.pool.gasUsd),
                      reason |-> "Inventory drift rebalance",
                      actions |-> << [type |-> "SWAP", from |-> from, amount |-> amount] >>,
                      strategy |-> "undefined"]

InventoryTargetDecide(ctx) ==
    IF ctx.pool.type = "cl" THEN noop("Non-CL inventory rebalance")
    ELSE
    LET baseValue  == Mul(ctx.vault.baseBalance, ctx.pool.price)
        quoteValue == ctx.vault.quoteBalance
        total      == baseValue + quoteValue
    IN  IF total <= 0 THEN noop("Empty vault")
        ELSE
        LET targetBaseValue == Mul(total, Scale \div 2)
            drift == Div(baseValue - targetBaseValue, total)
        IN  IF Abs(drift) < ctx.params.driftThreshold
            THEN noop("Inventory within drift threshold")
            ELSE
            LET valueToSwap == Abs(baseValue - targetBaseValue)
                expectedGainUsd == estimateFeeGain(ctx, total)
                from   == IF drift > 0 THEN "base" ELSE "quote"
                amount == IF from = "base" THEN Div(valueToSwap, ctx.pool.price)
                          ELSE valueToSwap
            IN  IF ~isWorthRebalance(ctx.pool.gasUsd, expectedGainUsd, ctx.params.minGasMultiple)
                THEN [shouldRebalance |-> FALSE,
                      score |-> Fin(expectedGainUsd - ctx.pool.gasUsd),
                      reason |-> "Inventory drift but gas too high",
                      actions |-> <<NoopAction>>, strategy |-> "undefined"]
                ELSE [shouldRebalance |-> TRUE,
                      score |-> Fin(expectedGainUsd - ctx.pool.gasUsd),
                      reason |-> "Inventory drift rebalance",
                      actions |-> << [type |-> "SWAP", from |-> from, amount |-> amount] >>,
                      strategy |-> "undefined"]

\* RewardCompoundDecide without the rewardsClaimUsd threshold
RewardCompoundDecideUnderThreshold(ctx) ==
    LET expectedGainUsd == ctx.vault.unclaimedRewardsUsd
    IN  IF ~isWorthRebalance(ctx.pool.gasUsd, expectedGainUsd, ctx.params.minGasMultiple)
        THEN [shouldRebalance |-> FALSE,
              score |-> Fin(expectedGainUsd - ctx.pool.gasUsd),
              reason |-> "Rewards claim below gas threshold",
              actions |-> <<NoopAction>>, strategy |-> "undefined"]
        ELSE [shouldRebalance |-> TRUE,
              score |-> Fin(expectedGainUsd - ctx.pool.gasUsd),
              reason |-> "Compound emissions",
              actions |-> << [type |-> "CLAIM_REWARDS", minUsd |-> ctx.params.rewardsClaimUsd] >>,
              strategy |-> "undefined"]

RewardCompoundDecide(ctx) ==
    IF ctx.vault.unclaimedRewardsUsd < ctx.params.rewardsClaimUsd
    THEN noop("Rewards below threshold")
    ELSE
    LET expectedGainUsd == ctx.vault.unclaimedRewardsUsd
    IN  IF ~isWorthRebalance(ctx.pool.gasUsd, expectedGainUsd, ctx.params.minGasMultiple)
        THEN [shouldRebalance |-> FALSE,
              score |-> Fin(expectedGainUsd - ctx.pool.gasUsd),
              reason |-> "Rewards claim below gas threshold",
              actions |-> <<NoopAction>>, strategy |-> "undefined"]
        ELSE [shouldRebalance |-> TRUE,
              score |-> Fin(expectedGainUsd - ctx.pool.gasUsd),
              reason |-> "Compound emissions",
              actions |-> << [type |-> "CLAIM_REWARDS", minUsd |-> ctx.params.rewardsClaimUsd] >>,
              strategy |-> "undefined"]

\* createDefaultStrategies(): the registration order is the evaluation order
createDefaultStrategies ==
    << "range-around-twap", "trend-skew", "inventory-target", "reward-compound" >>

\* strategy.decide(ctx) of the strategy registered under `name`
Decide(name, ctx) ==
    CASE name = "range-around-twap" -> RangeAroundTWAPDecide(ctx)
      [] name = "trend-skew"        -> TrendSkewDecide(ctx)
      [] name = "inventory-target"  -> InventoryTargetDecide(ctx)
      [] name = "reward-compound"   -> RewardCompoundDecide(ctx)

\* the test of pickBest's loop body: the decision replaces the best so far
\* a loop test that also replaces the best decision on an equal score
BetterOrEqual(decision, best) == decision.shouldRebalance /\ ~ScoreGT(best.score, decision.score)

Better(decision, best) == decision.shouldRebalance /\ ScoreGT(decision.score, best.score)

RECURSIVE pickBestFrom(_, _, _, _)
pickBestFrom(strategies, k, best, ctx) ==
    IF k > Len(strategies) THEN best
    ELSE Bind(Decide(strategies[k], ctx), LAMBDA decision :
             pickBestFrom(strategies, k + 1,
                          IF Better(decision, best)
                          THEN [decision EXCEPT !.strategy = strategies[k]]
                          ELSE best,
                          ctx))

pickBest(ctx) == pickBestFrom(createDefaultStrategies, 1, noop("No strategies"), ctx)

\* ------------------------------------------------------------------------
\* engine.ts: the vault operations
\* ------------------------------------------------------------------------

\* vault.position = undefined
NoPosition ==
    [open |-> FALSE, lower |-> 0, upper |-> 0, liquidity |-> 0, lastRebalanceMs |-> 0]

totalVaultValue(v, price) ==
    LET baseValue  == Mul(v.baseBalance, price)
        quoteValue == v.quoteBalance
        positionValue ==
            IF v.position.open
            THEN getPositionValueUsd(v.position.liquidity, v.position.lower,
                                     v.position.upper, price)
            ELSE 0
    IN  baseValue + quoteValue + positionValue

\* the test of updateVault: the position earns at this price
\* a range test that forgets the upper bound
InRangeAboveLower(position, price) == price >= position.lower

InRange(position, price) == price >= position.lower /\ price <= position.upper

\* updateVault: the per-tick accrual; yields the vault and the running stats
updateVault(v, st, p, price, dtDays, avgPoolRangeWidth) ==
    IF v.position.open
    THEN IF InRange(v.position, price)
         THEN LET feeShare == calculateFeeShare(v.position.liquidity, v.position.lower, v.position.upper, p.liquidityUsd, price, avgPoolRangeWidth)
                  totalPoolFees == Mul(Mul(p.liquidityUsd, p.feesApr), Div(dtDays, 365 * Scale))
                  positionValueUsd == getPositionValueUsd(v.position.liquidity, v.position.lower, v.position.upper, price)
                  emissionShare == IF p.liquidityUsd > 0
                                   THEN Div(positionValueUsd, p.liquidityUsd) ELSE 0
              IN  Bind(Mul(totalPoolFees, feeShare), LAMBDA fees :
                  Bind(Mul(Mul(Mul(p.liquidityUsd, p.emissionsApr), Div(dtDays, 365 * Scale)), emissionShare), LAMBDA rewards :
                      [vault |-> [v EXCEPT !.quoteBalance = @ + fees,
                                           !.unclaimedRewardsUsd = @ + rewards],
                       stats |-> [st EXCEPT !.feesUsd = @ + fees,
                                            !.emissionsUsd = @ + rewards]]))
         ELSE [vault |-> v, stats |-> st]
    ELSE IF p.type # "cl"
    THEN Bind(totalVaultValue(v, price), LAMBDA total :
             IF total > 0
             THEN Bind(Mul(Mul(total, p.feesApr), Div(dtDays, 365 * Scale)), LAMBDA fees :
                  Bind(Mul(Mul(total, p.emissionsApr), Div(dtDays, 365 * Scale)), LAMBDA rewards :
                      [vault |-> [v EXCEPT !.quoteBalance = @ + fees,
                                           !.unclaimedRewardsUsd = @ + rewards],
                       stats |-> [st EXCEPT !.feesUsd = @ + fees,
                                            !.emissionsUsd = @ + rewards]]))
             ELSE [vault |-> v, stats |-> st])
    ELSE [vault |-> v, stats |-> st]

\* seedInitialPosition; `now` is the reading of Date.now()
seedInitialPosition(v, p, params, now) ==
    Bind(clamp(volToBandWidth(p.vol, params.targetRebalanceHours, params.bandWidthK),
               params.minBandWidth, params.maxBandWidth), LAMBDA width :
    Bind(Mul(p.price, Scale - width), LAMBDA lower :
    Bind(Mul(p.price, Scale + width), LAMBDA upper :
    Bind(addLiquidityAmounts(v.baseBalance, v.quoteBalance, lower, upper, p.price), LAMBDA r :
        [v EXCEPT !.position = [open |-> TRUE, lower |-> lower, upper |-> upper,
                                liquidity |-> r.liquidity, lastRebalanceMs |-> now],
                  !.baseBalance = Sub(@, r.baseUsed),
                  !.quoteBalance = Sub(@, r.quoteUsed)]))))

removeLiquidity(v, price, percent) ==
    IF ~v.position.open THEN v
    ELSE Bind(clamp(percent, 0, Scale), LAMBDA clamped :
         Bind(getAmountsForLiquidity(v.position.liquidity, v.position.lower,
                                     v.position.upper, price), LAMBDA a :
         Bind(Mul(v.position.liquidity, Scale - clamped), LAMBDA liquidity :
             LET baseOut  == Mul(a.baseAmount, clamped)
                 quoteOut == Mul(a.quoteAmount, clamped)
             IN  [v EXCEPT !.baseBalance = Add(@, baseOut),
                           !.quoteBalance = Add(@, quoteOut),
                           !.position = IF LE(liquidity, Scale \div 100) THEN NoPosition
                                        ELSE [@ EXCEPT !.liquidity = liquidity]])))

addLiquidity(v, price, lower, upper, amountUsd, ts) ==
    Bind(addLiquidityAmounts(v.baseBalance, v.quoteBalance, lower, upper, price), LAMBDA r :
        IF LE(r.liquidity, 0) THEN v
        ELSE [v EXCEPT !.baseBalance = Sub(@, r.baseUsed),
                       !.quoteBalance = Sub(@, r.quoteUsed),
                       !.position = [open |-> TRUE, lower |-> lower, upper |-> upper,
                                     liquidity |-> r.liquidity, lastRebalanceMs |-> ts]])

\* swapInventory that debits the requested amount whatever the balance
swapInventoryUncapped(v, price, from, amount, poolLiquidityUsd, spreadBps, impactBps) ==
    IF amount <= 0 THEN v
    ELSE IF from = "base"
    THEN LET baseUsed == amount
             tradeValueUsd == Mul(baseUsed, price)
             effectivePrice == getEffectiveSwapPrice(price, tradeValueUsd, poolLiquidityUsd, FALSE, spreadBps, impactBps)
         IN  [v EXCEPT !.baseBalance = @ - baseUsed,
                       !.quoteBalance = @ + Mul(baseUsed, effectivePrice)]
    ELSE LET quoteUsed == amount
             effectivePrice == getEffectiveSwapPrice(price, quoteUsed, poolLiquidityUsd, TRUE, spreadBps, impactBps)
         IN  [v EXCEPT !.quoteBalance = @ - quoteUsed,
                       !.baseBalance = @ + Div(quoteUsed, effectivePrice)]

swapInventory(v, price, from, amount, poolLiquidityUsd, spreadBps, impactBps) ==
    IF amount <= 0 THEN v
    ELSE IF from = "base"
    THEN LET baseUsed == Min(amount, v.baseBalance)
             tradeValueUsd == Mul(baseUsed, price)
             effectivePrice == getEffectiveSwapPrice(price, tradeValueUsd, poolLiquidityUsd, FALSE, spreadBps, impactBps)
         IN  [v EXCEPT !.baseBalance = @ - baseUsed,
                       !.quoteBalance = @ + Mul(baseUsed, effectivePrice)]
    ELSE LET quoteUsed == Min(amount, v.quoteBalance)
             effectivePrice == getEffectiveSwapPrice(price, quoteUsed, poolLiquidityUsd, TRUE, spreadBps, impactBps)
         IN  [v EXCEPT !.quoteBalance = @ - quoteUsed,
                       !.baseBalance = @ + Div(quoteUsed, effectivePrice)]

\* claimRewards that credits the rewards and forgets to reset them
claimRewardsKept(v) ==
    IF v.unclaimedRewardsUsd <= 0 THEN v
    ELSE [v EXCEPT !.quoteBalance = @ + v.unclaimedRewardsUsd]

claimRewards(v) ==
    IF v.unclaimedRewardsUsd <= 0 THEN v
    ELSE [v EXCEPT !.quoteBalance = @ + v.unclaimedRewardsUsd,
                   !.unclaimedRewardsUsd = 0]

\* deductGas without the floor under the base balance
deductGasNoFloor(v, gasUsd, price) ==
    IF gasUsd <= 0 THEN v
    ELSE IF v.quoteBalance >= gasUsd
    THEN [v EXCEPT !.quoteBalance = @ - gasUsd]
    ELSE LET shortfall  == gasUsd - v.quoteBalance
             baseNeeded == Div(shortfall, price)
         IN  [v EXCEPT !.quoteBalance = 0,
                       !.baseBalance = @ - baseNeeded]

\* a deductGas that takes the amount twice, from the quote balance only
deductGasTwice(v, gasUsd, price) ==
    IF gasUsd <= 0 THEN v ELSE [v EXCEPT !.quoteBalance = @ - 2 * gasUsd]

deductGas(v, gasUsd, price) ==
    IF gasUsd <= 0 THEN v
    ELSE IF v.quoteBalance >= gasUsd
    THEN [v EXCEPT !.quoteBalance = @ - gasUsd]
    ELSE LET shortfall  == gasUsd - v.quoteBalance
             baseNeeded == Div(shortfall, price)
         IN  [v EXCEPT !.quoteBalance = 0,
                       !.baseBalance = Max(0, @ - baseNeeded)]

\* ------------------------------------------------------------------------
\* engine.ts: rolling statistics and the summary
\* ------------------------------------------------------------------------

RECURSIVE SumFrom(_, _)
SumFrom(xs, k) == IF k > Len(xs) THEN 0 ELSE xs[k] + SumFrom(xs, k + 1)

\* xs.slice(Math.max(0, xs.length - window))
LastWindow(xs, window) == SubSeq(xs, Max(0, Len(xs) - window) + 1, Len(xs))

computeTwap(ps, window) ==
    IF Len(ps) = 0 THEN 0
    ELSE LET slice == LastWindow(ps, window)
         IN  Div(SumFrom(slice, 1), Len(slice) * Scale)

RECURSIVE SumSqDev(_, _, _)
SumSqDev(xs, mean, k) ==
    IF k > Len(xs) THEN 0
    ELSE Mul(xs[k] - mean, xs[k] - mean) + SumSqDev(xs, mean, k + 1)

computeAnnualizedVol(rets, window, stepMinutes) ==
    IF Len(rets) < 2 THEN 0
    ELSE LET slice == LastWindow(rets, window)
         IN  IF Len(slice) < 2 THEN 0
             ELSE LET mean     == Div(SumFrom(slice, 1), Len(slice) * Scale)
                      variance == Div(SumSqDev(slice, mean, 1), (Len(slice) - 1) * Scale)
                      stdev    == Sqrt(variance)
                      annualFactor == Sqrt(Div(365 * 24 * 60, stepMinutes))
                  IN  Mul(stdev, annualFactor)

\* the loop of computeMaxDrawdown from point k on; peak.fin is false while the
\* peak is still -Infinity
RECURSIVE MaxDrawdownFrom(_, _, _, _)
MaxDrawdownFrom(equity, k, peak, maxDd) ==
    IF k > Len(equity) THEN maxDd
    ELSE LET value    == equity[k].valueUsd
             newPeak  == IF ScoreGT(Fin(value), peak) THEN Fin(value) ELSE peak
             drawdown == IF newPeak.v > 0 THEN Div(newPeak.v - value, newPeak.v) ELSE 0
         IN  MaxDrawdownFrom(equity, k + 1, newPeak, IF drawdown > maxDd THEN drawdown ELSE maxDd)

\* the drawdown left as a fraction, not a percentage
computeMaxDrawdownAsFraction(equity) == MaxDrawdownFrom(equity, 1, NegInf, 0)

computeMaxDrawdown(equity) == Mul(MaxDrawdownFrom(equity, 1, NegInf, 0), 100 * Scale)

\* Math.max(2, Math.round(a / b)) for positive integers a, b
WindowSteps(a, b) == Max(2, (2 * a + b) \div (2 * b))

\* ------------------------------------------------------------------------
\* The inputs of a run: a BacktestConfig and a MarketPoint series
\* ------------------------------------------------------------------------

\* longest series explored
MaxTicks == 3

PoolTypes == {"cl", "volatile", "stable"}

BaseConfig ==
    [poolType          |-> "cl",
     symbol            |-> "WETH/USDC",
     timeStepMinutes   |-> 1440,
     lookbackDays      |-> 30,
     initialCapitalUsd |-> 1000 * Scale,
     feesApr           |-> 2000,
     emissionsApr      |-> 2000,
     liquidityUsd      |-> 5000 * Scale,
     gasUsd            |-> 6000,
     windows           |-> [volDays |-> 7, twapShortHours |-> 48, twapLongHours |-> 72],
     rebalanceParams   |-> defaultParams]

Configs == { [BaseConfig EXCEPT !.poolType = t] : t \in PoolTypes }

\* prices of the series: 4.00 and 4.84
Prices == {4 * Scale, 48400}

\* the economic fields of a point: all missing; a pool rich in emissions with
\* cheap gas; a nearly empty pool with balanced fees and emissions
PointFields ==
    { [feesApr |-> NaN, emissionsApr |-> NaN, liquidityUsd |-> NaN, gasUsd |-> NaN],
      [feesApr |-> Fin(2 * Scale), emissionsApr |-> Fin(20 * Scale),
       liquidityUsd |-> NaN, gasUsd |-> Fin(500)],
      [feesApr |-> Fin(5 * Scale), emissionsApr |-> Fin(5 * Scale),
       liquidityUsd |-> Fin(1000), gasUsd |-> Fin(500)] }

PointChoices == { [price |-> p, fields |-> f] : p \in Prices, f \in PointFields }

\* ts of the k-th point: one time step after the one before it
StepMs(cfg) == cfg.timeStepMinutes * 60 * 1000

SeriesOfLen(cfg, n) ==
    { [k \in 1..n |->
          [ts           |-> k * StepMs(cfg),
           price        |-> f[k].price,
           feesApr      |-> f[k].fields.feesApr,
           emissionsApr |-> f[k].fields.emissionsApr,
           liquidityUsd |-> f[k].fields.liquidityUsd,
           gasUsd       |-> f[k].fields.gasUsd]] : f \in [1..n -> PointChoices] }

AllSeries(cfg) == UNION { SeriesOfLen(cfg, n) : n \in 0..MaxTicks }

\* ------------------------------------------------------------------------
\* engine.ts: runBacktest as a state machine
\* ------------------------------------------------------------------------

VARIABLES
    config,       \* the BacktestConfig of the call
    series,       \* the MarketPoint[] of the call
    clock,        \* what Date.now() returns during the call
    pc,           \* position in runBacktest
    i,            \* loop index (0-based)
    lastPrice,
    returns,
    prices,
    pool,         \* poolSnapshot of the current tick
    vault,
    stats,
    equityCurve,
    actionsLog,
    decision,     \* the decision of the current tick
    pending,      \* actions of the decision not applied yet
    error,        \* message of the Error thrown, if any
    result,       \* the BacktestResult returned
    pre,          \* history: vault and stats when applyDecision was entered
    wanted,       \* history: indices of the ticks whose decision was actionable
    prev,         \* history: the result of the call before this one
    call,         \* a vault operation or math function called on its own: arguments and result
    gen           \* the locals of generateSampleSeries

vars == << config, series, clock, pc, i, lastPrice, returns, prices, pool, vault, stats,
           equityCurve, actionsLog, decision, pending, error, result, pre, wanted, prev,
           call, gen >>

\* a local that is not assigned yet, a result that is not returned
Undefined == [undefined |-> TRUE]

NoError == "none"

\* avgPoolRangeWidth ?? 0.2, swapSpreadBps ?? 10, priceImpactBps ?? 5, mevBps ?? 30:
\* RebalanceParams declares none of the four, so the fallbacks apply
AvgPoolRangeWidth == (2 * Scale) \div 10
SwapSpreadBps == 10 * Scale
PriceImpactBps == 5 * Scale
MevBps == 30 * Scale

\* the state at the call of runBacktest(cfg, s)
CallState(cfg, s) ==
    /\ config = cfg
    /\ series = s
    /\ pc = "call"
    /\ i = 0
    /\ lastPrice = 0
    /\ returns = << >>
    /\ prices = << >>
    /\ pool = Undefined
    /\ vault = Undefined
    /\ stats = Undefined
    /\ equityCurve = << >>
    /\ actionsLog = << >>
    /\ decision = Undefined
    /\ pending = << >>
    /\ error = NoError
    /\ result = Undefined
    /\ pre = Undefined
    /\ wanted = {}

Init ==
    /\ \E cfg \in Configs : \E s \in AllSeries(cfg) : CallState(cfg, s)
    /\ clock = 0
    /\ prev = Undefined
    /\ call = Undefined
    /\ gen = Undefined

\* series.length === 0
\* a length test that never fires
SeriesIsEmptyNever(s) == Len(s) < 0

SeriesIsEmpty(s) == Len(s) = 0

\* lines 28-57: the guard, the locals, the initial vault
Start ==
    /\ pc = "call"
    /\ UNCHANGED << call, gen >>
    /\ IF SeriesIsEmpty(series)
       THEN /\ pc' = "error"
            /\ error' = "No market data points available"
            /\ UNCHANGED << lastPrice, vault, stats >>
       ELSE IF Len(series) = 0
       THEN \* series[0].price of an empty array
            /\ pc' = "error"
            /\ error' = "TypeError"
            /\ stats' = [feesUsd |-> 0, emissionsUsd |-> 0, gasUsd |-> 0, mevUsd |-> 0,
                         rebalances |-> 0]
            /\ UNCHANGED << lastPrice, vault >>
       ELSE /\ pc' = "tick"
            /\ error' = error
            /\ stats' = [feesUsd |-> 0, emissionsUsd |-> 0, gasUsd |-> 0, mevUsd |-> 0,
                         rebalances |-> 0]
            /\ lastPrice' = series[1].price
            /\ vault' = [baseBalance  |-> Div(config.initialCapitalUsd \div 2, series[1].price),
                         quoteBalance |-> config.initialCapitalUsd \div 2,
                         position     |-> NoPosition,
                         unclaimedRewardsUsd |-> 0]
    /\ UNCHANGED << config, series, clock, i, returns, prices, pool, equityCurve,
                    actionsLog, decision, pending, result, pre, wanted, prev >>

\* Number.isFinite(x) ? x : fallback, with the extra test of liquidity and gas
OrDefault(x, valid, fallback) == IF x.fin /\ valid THEN x.v ELSE fallback

\* lines 72-87: the PoolSnapshot of a tick
Snapshot(cfg, point, rets, ps) ==
    [type         |-> cfg.poolType,
     price        |-> point.price,
     twapShort    |-> computeTwap(ps, WindowSteps(cfg.windows.twapShortHours * 60, cfg.timeStepMinutes)),
     twapLong     |-> computeTwap(ps, WindowSteps(cfg.windows.twapLongHours * 60, cfg.timeStepMinutes)),
     vol          |-> computeAnnualizedVol(rets, WindowSteps(cfg.windows.volDays * 24 * 60, cfg.timeStepMinutes), cfg.timeStepMinutes),
     feesApr      |-> OrDefault(point.feesApr, TRUE, cfg.feesApr),
     emissionsApr |-> OrDefault(point.emissionsApr, TRUE, cfg.emissionsApr),
     liquidityUsd |-> OrDefault(point.liquidityUsd, point.liquidityUsd.v > 0, cfg.liquidityUsd),
     gasUsd       |-> OrDefault(point.gasUsd, point.gasUsd.v >= 0, cfg.gasUsd)]

\* lines 60-91: the rolling statistics, the snapshot and the per-tick accrual
Accrue ==
    /\ pc = "tick"
    /\ UNCHANGED << call, gen >>
    /\ LET point == series[i + 1]
           rets  == IF i > 0 THEN Append(returns, Ln(Div(point.price, lastPrice)))
                    ELSE returns
           ps    == Append(prices, point.price)
           dtDays == Div(config.timeStepMinutes, 24 * 60)
       IN  \E snap \in {Snapshot(config, point, rets, ps)} :
           \E u \in {updateVault(vault, stats, snap, point.price, dtDays, AvgPoolRangeWidth)} :
           /\ returns' = rets
           /\ prices' = ps
           /\ pool' = snap
           /\ vault' = u.vault
           /\ stats' = u.stats
           /\ pc' = IF ~u.vault.position.open /\ config.poolType = "cl" THEN "seed"
                    ELSE "decide"
    /\ UNCHANGED << config, series, clock, i, lastPrice, equityCurve, actionsLog,
                    decision, pending, error, result, pre, wanted, prev >>

\* lines 93-95
Seed ==
    /\ pc = "seed"
    /\ UNCHANGED << call, gen >>
    /\ vault' = seedInitialPosition(vault, pool, config.rebalanceParams, clock)
    /\ pc' = "decide"
    /\ UNCHANGED << config, series, clock, i, lastPrice, returns, prices, pool, stats,
                    equityCurve, actionsLog, decision, pending, error, result, pre,
                    wanted, prev >>

\* the StrategyContext of the tick
Ctx == [pool |-> pool, vault |-> vault, params |-> config.rebalanceParams,
        nowMs |-> series[i + 1].ts]

\* line 104: the strategies run on this tick
\* the runner consulted on the first tick too
RunsStrategiesAlways(k) == k >= 0

RunsStrategies(k) == k > 0

\* decision.actions.some(action => action.type !== "NOOP")
hasRealAction(d) == \E k \in 1..Len(d.actions) : d.actions[k].type # "NOOP"

\* lines 97-106: the Strategy Runner
DecideStep ==
    /\ pc = "decide"
    /\ UNCHANGED << call, gen >>
    /\ IF RunsStrategies(i)
       THEN \E d \in {pickBest(Ctx)} :
                /\ decision' = d
                /\ wanted' = IF d.shouldRebalance THEN wanted \cup {i} ELSE wanted
                /\ IF d.shouldRebalance
                   THEN /\ pc' = "costs"
                        /\ pre' = [vault |-> vault, stats |-> stats]
                   ELSE /\ pc' = "record"
                        /\ pre' = Undefined
       ELSE /\ decision' = Undefined
            /\ pc' = "record"
            /\ pre' = Undefined
            /\ wanted' = wanted
    /\ UNCHANGED << config, series, clock, i, lastPrice, returns, prices, pool, vault,
                    stats, equityCurve, actionsLog, pending, error, result, prev >>

\* lines 285-310: the trade value exposed to MEV, summed over actions k..
RECURSIVE TradeValueFrom(_, _, _, _)
TradeValueFrom(actions, k, v, p) ==
    IF k > Len(actions) THEN 0
    ELSE LET action == actions[k]
             here ==
                 IF action.type = "SWAP"
                 THEN IF action.from = "base" THEN Mul(action.amount, p.price)
                      ELSE action.amount
                 ELSE IF action.type = "REMOVE_LIQUIDITY" /\ v.position.open
                 THEN Mul(getPositionValueUsd(Mul(v.position.liquidity, action.percent),
                                              v.position.lower, v.position.upper, p.price),
                          Scale \div 10)
                 ELSE IF action.type = "ADD_LIQUIDITY"
                 THEN Mul(action.amountUsd, Scale \div 10)
                 ELSE 0
         IN  here + TradeValueFrom(actions, k + 1, v, p)

\* the MEV cost applyDecision charges for decision d
MevCostOf(d, v, p) ==
    estimateMevCost(TradeValueFrom(d.actions, 1, v, p), p.liquidityUsd, p.vol, MevBps)

\* ChargeCosts that counts the gas once per action of the decision
ChargeCostsPerAction(v, st, d, p) ==
    Bind(MevCostOf(d, v, p), LAMBDA mevCost :
    Bind(deductGas(v, p.gasUsd, p.price), LAMBDA v1 :
    Bind(IF mevCost > 0 THEN deductGas(v1, mevCost, p.price) ELSE v1, LAMBDA v2 :
        [vault |-> v2,
         stats |-> [st EXCEPT !.gasUsd = @ + Len(d.actions) * p.gasUsd,
                              !.mevUsd = IF mevCost > 0 THEN @ + mevCost ELSE @,
                              !.rebalances = @ + 1]])))

\* lines 273-328 of applyDecision: gas once, then MEV, then the rebalance count
ChargeCosts(v, st, d, p) ==
    Bind(MevCostOf(d, v, p), LAMBDA mevCost :
    Bind(deductGas(v, p.gasUsd, p.price), LAMBDA v1 :
    Bind(IF mevCost > 0 THEN deductGas(v1, mevCost, p.price) ELSE v1, LAMBDA v2 :
        [vault |-> v2,
         stats |-> [st EXCEPT !.gasUsd = @ + p.gasUsd,
                              !.mevUsd = IF mevCost > 0 THEN @ + mevCost ELSE @,
                              !.rebalances = @ + 1]])))

Costs ==
    /\ pc = "costs"
    /\ UNCHANGED << call, gen >>
    /\ IF ~hasRealAction(decision)
       THEN /\ pc' = "record"
            /\ UNCHANGED << vault, stats, decision, pending >>
       ELSE \E c \in {ChargeCosts(vault, stats, decision, pool)} :
                /\ vault' = c.vault
                /\ stats' = c.stats
                /\ decision' = IF decision.strategy = "undefined"
                               THEN [decision EXCEPT !.strategy = "unknown"]
                               ELSE decision
                /\ pending' = decision.actions
                /\ pc' = "actions"
    /\ UNCHANGED << config, series, clock, i, lastPrice, returns, prices, pool,
                    equityCurve, actionsLog, error, result, pre, wanted, prev >>

ActionTypes == {"REMOVE_LIQUIDITY", "ADD_LIQUIDITY", "SWAP", "CLAIM_REWARDS", "NOOP"}

\* the case of the switch that handles the action; "default" is assertNever
\* a switch without the default case
SwitchCaseOpen(action) == action.type

SwitchCase(action) == IF action.type \in ActionTypes THEN action.type ELSE "default"

\* one case of the switch of lines 331-356
ApplyOne(v, action, p, ts) ==
    CASE SwitchCase(action) = "REMOVE_LIQUIDITY" -> removeLiquidity(v, p.price, action.percent)
      [] SwitchCase(action) = "ADD_LIQUIDITY" ->
             addLiquidity(v, p.price, action.lower, action.upper, action.amountUsd, ts)
      [] SwitchCase(action) = "SWAP" ->
             swapInventory(v, p.price, action.from, action.amount, p.liquidityUsd, SwapSpreadBps, PriceImpactBps)
      [] SwitchCase(action) = "CLAIM_REWARDS" -> claimRewards(v)
      [] OTHER -> v

RECURSIVE ActionTypesOf(_, _)
ActionTypesOf(actions, k) ==
    IF k > Len(actions) THEN << >>
    ELSE << actions[k].type >> \o ActionTypesOf(actions, k + 1)

\* lines 359-365: the entry applyDecision returns
LogEntry(d, p, ts) ==
    [ts |-> ts, strategy |-> d.strategy, reason |-> d.reason,
     actions |-> ActionTypesOf(d.actions, 1), gasUsd |-> p.gasUsd]

\* lines 330-365 and 117-119: the next action of the decision; after the last
\* one the entry is returned and pushed to the log
ApplyAction ==
    /\ pc = "actions"
    /\ UNCHANGED << call, gen >>
    /\ pending # << >>
    /\ LET action == Head(pending)
       IN  IF SwitchCase(action) = "default"
           THEN /\ pc' = "error"
                /\ error' = "Unhandled action type"
                /\ UNCHANGED << vault, pending, actionsLog >>
           ELSE /\ vault' = ApplyOne(vault, action, pool, series[i + 1].ts)
                /\ pending' = Tail(pending)
                /\ error' = error
                /\ IF Tail(pending) = << >>
                   THEN /\ actionsLog' = Append(actionsLog, LogEntry(decision, pool, series[i + 1].ts))
                        /\ pc' = "record"
                   ELSE /\ actionsLog' = actionsLog
                        /\ pc' = "actions"
    /\ UNCHANGED << config, series, clock, i, lastPrice, returns, prices, pool, stats,
                    equityCurve, decision, result, pre, wanted, prev >>

\* lines 123-124: the equity point of the tick
\* an equity point stamped after its tick
EquityPointLate(point, v) ==
    [ts |-> point.ts + 1, valueUsd |-> totalVaultValue(v, point.price), price |-> point.price]

EquityPoint(point, v) ==
    [ts |-> point.ts, valueUsd |-> totalVaultValue(v, point.price), price |-> point.price]

\* lines 123-127
\* the loop test with the last tick left out
LoopContinuesShort(k, n) == k < n - 1

\* line 59: the loop test i < series.length
LoopContinues(k, n) == k < n

Record ==
    /\ pc = "record"
    /\ UNCHANGED << call, gen >>
    /\ equityCurve' = Append(equityCurve, EquityPoint(series[i + 1], vault))
    /\ lastPrice' = series[i + 1].price
    /\ i' = i + 1
    /\ pc' = IF LoopContinues(i + 1, Len(series)) THEN "tick" ELSE "finish"
    /\ UNCHANGED << config, series, clock, returns, prices, pool, vault, stats,
                    actionsLog, decision, pending, error, result, pre, wanted, prev >>

\* lines 129-166: the BacktestResult (annualizedReturnPct left out)
BuildResult(cfg, s, curve, log, st, rets, ps, now) ==
    LET startValueUsd == curve[1].valueUsd
        endValueUsd   == curve[Len(curve)].valueUsd
        last          == s[Len(s)]
    IN  [meta |-> [generatedAt |-> now, symbol |-> cfg.symbol,
                   poolType |-> cfg.poolType, points |-> Len(s)],
         summary |-> [startValueUsd  |-> startValueUsd,
                      endValueUsd    |-> endValueUsd,
                      totalReturnPct |-> Mul(Div(endValueUsd - startValueUsd, startValueUsd), 100 * Scale),
                      feesUsd        |-> st.feesUsd,
                      emissionsUsd   |-> st.emissionsUsd,
                      gasUsd         |-> st.gasUsd,
                      mevUsd         |-> st.mevUsd,
                      rebalances     |-> st.rebalances,
                      maxDrawdownPct |-> computeMaxDrawdown(curve)],
         equityCurve |-> curve,
         actions |-> log,
         lastSnapshot |-> [ts |-> last.ts, price |-> last.price,
                           twapShort |-> computeTwap(ps, WindowSteps(cfg.windows.twapShortHours * 60, cfg.timeStepMinutes)),
                           twapLong  |-> computeTwap(ps, WindowSteps(cfg.windows.twapLongHours * 60, cfg.timeStepMinutes)),
                           vol       |-> computeAnnualizedVol(rets, WindowSteps(cfg.windows.volDays * 24 * 60, cfg.timeStepMinutes), cfg.timeStepMinutes)]]

Finish ==
    /\ pc = "finish"
    /\ UNCHANGED << call, gen >>
    /\ result' = BuildResult(config, series, equityCurve, actionsLog, stats, returns, prices, clock)
    /\ pc' = "done"
    /\ UNCHANGED << config, series, clock, i, lastPrice, returns, prices, pool, vault,
                    stats, equityCurve, actionsLog, decision, pending, error, pre,
                    wanted, prev >>

Next == Start \/ Accrue \/ Seed \/ DecideStep \/ Costs \/ ApplyAction \/ Record \/ Finish

Spec == Init /\ [][Next]_vars

\* a second call of runBacktest with the same arguments, at the same or at a
\* later reading of the wall clock
Rerun ==
    /\ pc = "done"
    /\ UNCHANGED << call, gen >>
    /\ prev = Undefined
    /\ prev' = result
    /\ \E later \in {clock, clock + 1} : clock' = later
    /\ pc' = "call"
    /\ i' = 0
    /\ lastPrice' = 0
    /\ returns' = << >>
    /\ prices' = << >>
    /\ pool' = Undefined
    /\ vault' = Undefined
    /\ stats' = Undefined
    /\ equityCurve' = << >>
    /\ actionsLog' = << >>
    /\ decision' = Undefined
    /\ pending' = << >>
    /\ error' = NoError
    /\ result' = Undefined
    /\ pre' = Undefined
    /\ wanted' = {}
    /\ UNCHANGED << config, series >>

NextRerun == Next \/ Rerun

SpecRerun == Init /\ [][NextRerun]_vars

\* ------------------------------------------------------------------------
\* Properties of the run
\* ------------------------------------------------------------------------

\* C1: in every state of a run the vault's idle balances are non-negative:
\* baseBalance >= 0 and quoteBalance >= 0 after accrual, seeding, the gas and
\* MEV deductions and every applied action.
C1_BalancesNonNegative ==
    vault # Undefined => vault.baseBalance >= 0 /\ vault.quoteBalance >= 0

\* applyDecision has returned for the decision of this tick
Applied == pc = "record" /\ pre # Undefined

ValueBefore == totalVaultValue(pre.vault, pool.price)

ValueAfter == totalVaultValue(vault, pool.price)

\* what the tick added to the cumulative gasUsd and mevUsd
ReportedCosts == (stats.gasUsd - pre.stats.gasUsd) + (stats.mevUsd - pre.stats.mevUsd)

\* rounding allowed on a value in USD
ValueTol == Scale \div 100

\* the idle balances are worth the charges: deductGas does not clamp at zero
CostsCovered ==
    pre.vault.quoteBalance + Mul(pre.vault.baseBalance, pool.price) >= ReportedCosts + ValueTol

OnlyTypes(d, types) == \A k \in 1..Len(d.actions) : d.actions[k].type \in types

ValueDrift == ValueAfter - (ValueBefore - ReportedCosts)

LiquidityActions == {"REMOVE_LIQUIDITY", "ADD_LIQUIDITY", "NOOP"}

\* C2 as stated: whatever the actions of the applied decision, the total vault
\* value after applyDecision is the value before it minus the gas and MEV
\* reported for the tick (within rounding).
C2_ValueConservedByAnyDecision == Applied => Abs(ValueDrift) <= ValueTol

\* C2, amended: when the idle balances are worth the charges, a decision of
\* REMOVE_LIQUIDITY and ADD_LIQUIDITY actions leaves the total vault value at
\* the value before minus the reported gas and MEV, and a CLAIM_REWARDS
\* decision leaves it higher than that by exactly the rewards claimed.
C2_ValueConservedByLiquidityActions ==
    (Applied /\ CostsCovered) =>
        /\ OnlyTypes(decision, LiquidityActions) => Abs(ValueDrift) <= ValueTol
        /\ OnlyTypes(decision, {"CLAIM_REWARDS"}) =>
               Abs(ValueDrift - pre.vault.unclaimedRewardsUsd) <= ValueTol

C2_Witness ==
    /\ Applied
    /\ CostsCovered
    /\ OnlyTypes(decision, LiquidityActions)
    /\ hasRealAction(decision)
    /\ ReportedCosts > ValueTol
    /\ vault.position # pre.vault.position

\* C3: a second call with the same config and the same series returns a
\* BacktestResult equal to the first in every field.
C3_SameInputsSameResult == (pc = "done" /\ prev # Undefined) => result = prev

\* C4: a call with a zero-length series raises "No market data points
\* available" before any vault state, running statistic, equity point or log
\* entry exists, and returns no result.
C4_EmptySeriesRaisesNoData ==
    (Len(series) = 0 /\ pc # "call") =>
        /\ pc = "error"
        /\ error = "No market data points available"
        /\ vault = Undefined
        /\ stats = Undefined
        /\ equityCurve = << >>
        /\ actionsLog = << >>
        /\ result = Undefined

C4_Witness == Len(series) = 0 /\ pc = "error"

\* C5: the returned equityCurve has one entry per input tick, in input order,
\* with the tick's ts and price; its length is series.length and meta.points;
\* it ascends in ts as the input does.
C5_OneEquityPointPerTick ==
    pc = "done" =>
        /\ Len(result.equityCurve) = Len(series)
        /\ result.meta.points = Len(series)
        /\ \A k \in 1..Len(series) :
               /\ result.equityCurve[k].ts = series[k].ts
               /\ result.equityCurve[k].price = series[k].price
        /\ \A j, k \in 1..Len(result.equityCurve) :
               j < k => result.equityCurve[j].ts < result.equityCurve[k].ts

C5_Witness == pc = "done" /\ Len(result.equityCurve) >= 2

\* C6: every entry of the action log carries the ts of a tick with index >= 1
\* on which the runner returned an actionable decision; entries are in tick
\* order, at most one per tick; the first tick never produces an entry.
C6_LogIsSubsequenceOfActionableTicks ==
    /\ \A n \in 1..Len(actionsLog) :
           /\ \E k \in wanted : k >= 1 /\ series[k + 1].ts = actionsLog[n].ts
           /\ actionsLog[n].ts # series[1].ts
    /\ \A m, n \in 1..Len(actionsLog) :
           m < n => actionsLog[m].ts < actionsLog[n].ts

C6_Witness == pc = "done" /\ Len(actionsLog) >= 2

\* what each strategy of the default list decides in the context of this tick
Evaluated ==
    [k \in 1..Len(createDefaultStrategies) |-> Decide(createDefaultStrategies[k], Ctx)]

Actionable == { k \in 1..Len(createDefaultStrategies) : Evaluated[k].shouldRebalance }

\* C7: when some strategy is actionable, pickBest returns the actionable
\* decision of maximum score, on a tie that of the strategy first in the order
\* range-around-twap, trend-skew, inventory-target, reward-compound, labelled
\* with the strategy's name; it returns the NOOP decision of score -Infinity
\* only when no strategy is actionable.
C7_PickBestMaxScoreFirstOnTie ==
    /\ pc = "costs" =>
           \E k \in Actionable :
               /\ decision = [Evaluated[k] EXCEPT !.strategy = createDefaultStrategies[k]]
               /\ \A j \in Actionable :
                      /\ ~ScoreGT(Evaluated[j].score, Evaluated[k].score)
                      /\ j < k => ScoreGT(Evaluated[k].score, Evaluated[j].score)
    /\ (pc = "record" /\ decision # Undefined /\ ~decision.shouldRebalance) =>
           /\ Actionable = {}
           /\ decision.score = NegInf
           /\ decision.actions = << NoopAction >>

\* two strategies actionable with the same score, the first of them returned
C7_Witness ==
    /\ pc = "costs"
    /\ \E j, k \in Actionable :
           /\ j < k
           /\ Evaluated[j].score = Evaluated[k].score
           /\ decision.strategy = createDefaultStrategies[j]

\* C8: on a tick at which a position is open and the price is below its lower
\* or above its upper bound, updateVault leaves quoteBalance,
\* unclaimedRewardsUsd and the cumulative feesUsd and emissionsUsd unchanged.
C8_NoAccrualOutOfRange ==
    [][ ( /\ pc = "tick"
          /\ vault.position.open
          /\ \/ series[i + 1].price < vault.position.lower
             \/ series[i + 1].price > vault.position.upper )
        => /\ vault'.quoteBalance = vault.quoteBalance
           /\ vault'.unclaimedRewardsUsd = vault.unclaimedRewardsUsd
           /\ stats'.feesUsd = stats.feesUsd
           /\ stats'.emissionsUsd = stats.emissionsUsd ]_vars

\* the accrual of a tick has run on an open position that is out of range
C8_Witness ==
    /\ pc = "decide"
    /\ i >= 1
    /\ vault.position.open
    /\ \/ pool.price < vault.position.lower
       \/ pool.price > vault.position.upper
    /\ pool.emissionsApr > 0
    /\ pool.feesApr > 0

\* ------------------------------------------------------------------------
\* computeMaxDrawdown on its own: equity curves drawn from a small set
\* ------------------------------------------------------------------------

MaxCurve == 4

EquityValues == {90 * Scale, 100 * Scale, 120 * Scale, 150 * Scale}

Curves ==
    UNION { { [k \in 1..n |-> [ts |-> k, valueUsd |-> f[k], price |-> Scale]] :
              f \in [1..n -> EquityValues] } : n \in 0..MaxCurve }

InitDD ==
    /\ \E c \in Curves : equityCurve = c
    /\ pc = "drawdown"
    /\ config = BaseConfig
    /\ series = << >>
    /\ clock = 0
    /\ i = 0
    /\ lastPrice = 0
    /\ returns = << >>
    /\ prices = << >>
    /\ pool = Undefined
    /\ vault = Undefined
    /\ stats = Undefined
    /\ actionsLog = << >>
    /\ decision = Undefined
    /\ pending = << >>
    /\ error = NoError
    /\ result = Undefined
    /\ pre = Undefined
    /\ wanted = {}
    /\ prev = Undefined
    /\ call = Undefined
    /\ gen = Undefined

\* the call computeMaxDrawdown(equityCurve)
Drawdown ==
    /\ pc = "drawdown"
    /\ UNCHANGED << call, gen >>
    /\ result' = [maxDrawdownPct |-> computeMaxDrawdown(equityCurve)]
    /\ pc' = "done"
    /\ UNCHANGED << config, series, clock, i, lastPrice, returns, prices, pool, vault,
                    stats, equityCurve, actionsLog, decision, pending, error, pre,
                    wanted, prev >>

NextDD == Drawdown

SpecDD == InitDD /\ [][NextDD]_vars

MaxOf(S) == CHOOSE x \in S : \A y \in S : y <= x

\* the highest equity among points 1..k
PeakAt(equity, k) == MaxOf({ equity[j].valueUsd : j \in 1..k })

\* (peak_k - v_k) / peak_k
DrawdownAt(equity, k) ==
    Div(PeakAt(equity, k) - equity[k].valueUsd, PeakAt(equity, k))

ValuesOf(equity) == [k \in 1..Len(equity) |-> equity[k].valueUsd]

\* C9: computeMaxDrawdown is 100 times the largest (peak_i - v_i) / peak_i,
\* peak_i the highest equity among points 0..i; the first point is no
\* drawdown, a non-decreasing curve gives 0, [100, 120, 90, 150] gives 25.
C9_MaxDrawdownIsLargestDropFromPeak ==
    pc = "done" =>
        LET equity == equityCurve
            dd     == result.maxDrawdownPct
        IN  /\ dd = Mul(MaxOf({0} \cup { DrawdownAt(equity, k) : k \in 1..Len(equity) }),
                        100 * Scale)
            /\ Len(equity) >= 1 => DrawdownAt(equity, 1) = 0
            /\ Len(equity) = 1 => dd = 0
            /\ (\A k \in 1..(Len(equity) - 1) :
                    equity[k].valueUsd <= equity[k + 1].valueUsd) => dd = 0
            /\ ValuesOf(equity) = << 100 * Scale, 120 * Scale, 90 * Scale, 150 * Scale >>
                   => dd = 25 * Scale

C9_Witness ==
    /\ pc = "done"
    /\ ValuesOf(equityCurve) = << 100 * Scale, 120 * Scale, 90 * Scale, 150 * Scale >>
    /\ result.maxDrawdownPct = 25 * Scale

\* ------------------------------------------------------------------------
\* applyDecision on its own: the vault, the pool and the decision are inputs
\* ------------------------------------------------------------------------

ApplyPrices == {4 * Scale, 48400}

ApplyPools ==
    { [type |-> "cl", price |-> p, twapShort |-> p, twapLong |-> p, vol |-> 0,
       feesApr |-> BaseConfig.feesApr, emissionsApr |-> BaseConfig.emissionsApr,
       liquidityUsd |-> l, gasUsd |-> BaseConfig.gasUsd] :
      p \in ApplyPrices, l \in {BaseConfig.liquidityUsd, 100 * Scale} }

\* a vault holding idle balances and rewards
IdleVault ==
    [baseBalance |-> 125 * Scale, quoteBalance |-> 500 * Scale, position |-> NoPosition,
     unclaimedRewardsUsd |-> 60 * Scale]

\* vaults: idle only; seeded into a position around 4.00; nearly empty
ApplyVaults ==
    { IdleVault,
      seedInitialPosition([IdleVault EXCEPT !.unclaimedRewardsUsd = 0],
                          [price |-> 4 * Scale, vol |-> 0], defaultParams, 0),
      [IdleVault EXCEPT !.baseBalance = 100, !.quoteBalance = 100] }

\* an action type outside the Action union
UnknownAction == [type |-> "HARVEST"]

ApplyDecisionActions ==
    { << [type |-> "REMOVE_LIQUIDITY", percent |-> Scale],
         [type |-> "ADD_LIQUIDITY", lower |-> 39000, upper |-> 41000, amountUsd |-> 100 * Scale] >>,
      << [type |-> "SWAP", from |-> "base", amount |-> 10 * Scale] >>,
      << [type |-> "SWAP", from |-> "quote", amount |-> 50 * Scale] >>,
      << [type |-> "CLAIM_REWARDS", minUsd |-> defaultParams.rewardsClaimUsd] >>,
      << NoopAction >>,
      << UnknownAction >>,
      << [type |-> "CLAIM_REWARDS", minUsd |-> defaultParams.rewardsClaimUsd], UnknownAction >>,
      << UnknownAction, [type |-> "SWAP", from |-> "quote", amount |-> 50 * Scale] >> }

ApplyDecisions ==
    { [shouldRebalance |-> TRUE, score |-> Fin(Scale), reason |-> "input",
       actions |-> a, strategy |-> "input"] : a \in ApplyDecisionActions }

InitApply ==
    /\ \E v \in ApplyVaults, p \in ApplyPools, d \in ApplyDecisions :
           /\ vault = v
           /\ pool = p
           /\ decision = d
           /\ series = [k \in 1..2 |->
                           [ts |-> k * StepMs(BaseConfig), price |-> p.price,
                            feesApr |-> NaN, emissionsApr |-> NaN,
                            liquidityUsd |-> NaN, gasUsd |-> NaN]]
           /\ lastPrice = p.price
           /\ prices = << p.price >>
    /\ stats = [feesUsd |-> 0, emissionsUsd |-> 0, gasUsd |-> 0, mevUsd |-> 0,
                rebalances |-> 0]
    /\ pre = [vault |-> vault, stats |-> stats]
    /\ pc = "costs"
    /\ config = BaseConfig
    /\ clock = 0
    /\ i = 1
    /\ returns = << >>
    /\ equityCurve = << >>
    /\ actionsLog = << >>
    /\ pending = << >>
    /\ error = NoError
    /\ result = Undefined
    /\ wanted = {1}
    /\ prev = Undefined
    /\ call = Undefined
    /\ gen = Undefined

NextApply == Costs \/ ApplyAction

SpecApply == InitApply /\ [][NextApply]_vars

\* the actions of d from the first one of unknown type on
RECURSIVE FromUnknown(_)
FromUnknown(actions) ==
    IF actions = << >> \/ Head(actions).type \notin ActionTypes THEN actions
    ELSE FromUnknown(Tail(actions))

\* C10: a decision with an action whose type is none of REMOVE_LIQUIDITY,
\* ADD_LIQUIDITY, SWAP, CLAIM_REWARDS, NOOP makes applyDecision throw
\* "Unhandled action type": the action is never passed over, applyDecision
\* never returns an entry for the decision.
C10_UnknownActionThrows ==
    FromUnknown(decision.actions) # << >> =>
        /\ pc \in {"costs", "actions", "error"}
        /\ actionsLog = << >>
        /\ pc = "actions" =>
               Len(pending) >= Len(FromUnknown(decision.actions))
        /\ pc = "error" =>
               /\ error = "Unhandled action type"
               /\ pending = FromUnknown(decision.actions)

C10_Witness ==
    /\ pc = "error"
    /\ error = "Unhandled action type"
    /\ Head(pending) = UnknownAction
    /\ Len(pending) < Len(decision.actions)

\* ------------------------------------------------------------------------
\* The vault operations on their own: the vault and the arguments are inputs
\* ------------------------------------------------------------------------

\* RebalanceParams with no floor under the band width
NarrowParams == [defaultParams EXCEPT !.minBandWidth = 0]

\* the pool of a first tick at price p: no returns yet, so vol = 0
FirstTickPool(p) == [price |-> p, vol |-> 0]

\* the initial vault of runBacktest for a capital, at price p
InitialVault(capital, p) ==
    [baseBalance |-> Div(capital \div 2, p), quoteBalance |-> capital \div 2,
     position |-> NoPosition, unclaimedRewardsUsd |-> 0]

OpPrices == {35000, 4 * Scale, 48400}

\* vaults without a position: the initial vault of a large and of a small
\* capital, one that has spent its base, one that has spent nearly everything
OpIdleVaults ==
    { InitialVault(1000 * Scale, 4 * Scale),
      InitialVault(Scale, 4 * Scale),
      [InitialVault(1000 * Scale, 4 * Scale) EXCEPT !.baseBalance = 0],
      [InitialVault(1000 * Scale, 4 * Scale) EXCEPT !.baseBalance = 100, !.quoteBalance = 100] }

\* vaults as seedInitialPosition leaves them at price 4.00
OpSeededVaults ==
    { seedInitialPosition(v, FirstTickPool(4 * Scale), params, 0) :
          v \in { InitialVault(1000 * Scale, 4 * Scale), InitialVault(Scale, 4 * Scale) },
          params \in {defaultParams, NarrowParams} }

OpRanges ==
    { [lower |-> 39600, upper |-> 40400],
      [lower |-> 4 * Scale, upper |-> 4 * Scale],
      [lower |-> 44200, upper |-> 44200],
      [lower |-> 45000, upper |-> 47000] }

OpPercents == {-(Scale \div 2), 0, Scale \div 2, 9999, Scale, (3 * Scale) \div 2}

OpCosts == {-Scale, 0, 500, 6000, 600 * Scale, 2000 * Scale}

\* unclaimed rewards: none, a little, more than rewardsClaimUsd, and below zero
OpRewards == {-Scale, 0, 5000, 75 * Scale}

\* the amount of a SWAP: below zero, zero, small, less and more than a balance
OpAmounts == {-Scale, 0, 5000, 50 * Scale, 1000 * Scale}

\* the pool's liquidityUsd: smaller than the trade, and the default
OpPoolLiquidities == {Scale \div 10, BaseConfig.liquidityUsd}

OpCalls ==
    { [fn |-> "seedInitialPosition", vault |-> v, pool |-> FirstTickPool(p), params |-> q, now |-> 0] :
          v \in OpIdleVaults, p \in OpPrices, q \in {defaultParams, NarrowParams} }
    \cup
    { [fn |-> "addLiquidity", vault |-> v, price |-> p, lower |-> r.lower, upper |-> r.upper,
       amountUsd |-> totalVaultValue(v, p), ts |-> 1] :
          v \in OpIdleVaults, p \in OpPrices, r \in OpRanges }
    \cup
    { [fn |-> "removeLiquidity", vault |-> v, price |-> p, percent |-> x] :
          v \in OpSeededVaults \cup {InitialVault(1000 * Scale, 4 * Scale)},
          p \in OpPrices, x \in OpPercents }
    \cup
    { [fn |-> "deductGas", vault |-> v, gasUsd |-> c, price |-> p] :
          v \in OpIdleVaults \cup { w \in OpSeededVaults : ~IsInf(w.position.liquidity) },
          p \in OpPrices, c \in OpCosts }
    \cup
    { [fn |-> "claimRewards", vault |-> [v EXCEPT !.unclaimedRewardsUsd = r]] :
          v \in OpIdleVaults \cup { w \in OpSeededVaults : ~IsInf(w.position.liquidity) },
          r \in OpRewards }
    \cup
    { [fn |-> "swapInventory", vault |-> v, price |-> p, from |-> f, amount |-> a,
       poolLiquidityUsd |-> l] :
          v \in OpIdleVaults, p \in OpPrices, f \in {"base", "quote"},
          a \in OpAmounts, l \in OpPoolLiquidities }

InitOps ==
    /\ \E c \in OpCalls : call = c /\ vault = c.vault
    /\ pc = "op"
    /\ config = BaseConfig
    /\ series = << >>
    /\ clock = 0
    /\ i = 0
    /\ lastPrice = 0
    /\ returns = << >>
    /\ prices = << >>
    /\ pool = Undefined
    /\ stats = Undefined
    /\ equityCurve = << >>
    /\ actionsLog = << >>
    /\ decision = Undefined
    /\ pending = << >>
    /\ error = NoError
    /\ result = Undefined
    /\ pre = Undefined
    /\ wanted = {}
    /\ prev = Undefined
    /\ gen = Undefined

\* what is left alone by a vault operation called on its own
OpFrame ==
    /\ pc' = "returned"
    /\ UNCHANGED << config, series, clock, i, lastPrice, returns, prices, pool, stats,
                    equityCurve, actionsLog, decision, pending, error, result, pre,
                    wanted, prev, call, gen >>

CallSeedInitialPosition ==
    /\ pc = "op"
    /\ call.fn = "seedInitialPosition"
    /\ vault' = seedInitialPosition(vault, call.pool, call.params, call.now)
    /\ OpFrame

CallAddLiquidity ==
    /\ pc = "op"
    /\ call.fn = "addLiquidity"
    /\ vault' = addLiquidity(vault, call.price, call.lower, call.upper, call.amountUsd, call.ts)
    /\ OpFrame

CallRemoveLiquidity ==
    /\ pc = "op"
    /\ call.fn = "removeLiquidity"
    /\ vault' = removeLiquidity(vault, call.price, call.percent)
    /\ OpFrame

CallDeductGas ==
    /\ pc = "op"
    /\ call.fn = "deductGas"
    /\ vault' = deductGas(vault, call.gasUsd, call.price)
    /\ OpFrame

CallClaimRewards ==
    /\ pc = "op"
    /\ call.fn = "claimRewards"
    /\ vault' = claimRewards(vault)
    /\ OpFrame

CallSwapInventory ==
    /\ pc = "op"
    /\ call.fn = "swapInventory"
    /\ vault' = swapInventory(vault, call.price, call.from, call.amount, call.poolLiquidityUsd,
                              SwapSpreadBps, PriceImpactBps)
    /\ OpFrame

NextOps ==
    \/ CallSeedInitialPosition
    \/ CallAddLiquidity
    \/ CallRemoveLiquidity
    \/ CallDeductGas
    \/ CallClaimRewards
    \/ CallSwapInventory

SpecOps == InitOps /\ [][NextOps]_vars

\* C11: addLiquidity and seedInitialPosition never leave a position whose
\* liquidity is infinite or undefined: a degenerate sizing opens no position.
C11_NoDegeneratePosition ==
    (pc = "returned" /\ call.fn \in {"addLiquidity", "seedInitialPosition"}) =>
        (vault.position.open =>
             ~IsInf(vault.position.liquidity) /\ ~IsNaN(vault.position.liquidity))

\* ------------------------------------------------------------------------
\* The position math on its own: addLiquidityAmounts, getAmountsForLiquidity
\* ------------------------------------------------------------------------

MathRanges ==
    { [lower |-> 39600, upper |-> 40400],
      [lower |-> Scale, upper |-> 4 * Scale],
      [lower |-> 45000, upper |-> 47000] }

\* prices below, at the lower bound, inside, at the upper bound and above
MathPrices(r) == {5000, r.lower, (r.lower + r.upper) \div 2, r.upper, 6 * Scale}

MathBases == {0, Scale, 125 * Scale}

MathQuotes == {0, 3 * Scale, 500 * Scale}

MathLiquidities == {0, Scale, 250005000, 495040000}

MathCalls ==
    { [fn |-> "addLiquidityAmounts", baseAvailable |-> b, quoteAvailable |-> q,
       lower |-> r.lower, upper |-> r.upper, price |-> p,
       sized |-> Undefined, amounts |-> Undefined] :
          b \in MathBases, q \in MathQuotes,
          r \in MathRanges, p \in UNION { MathPrices(x) : x \in MathRanges } }
    \cup
    { [fn |-> "getAmountsForLiquidity", liquidity |-> l,
       lower |-> r.lower, upper |-> r.upper, price |-> p, amounts |-> Undefined] :
          l \in MathLiquidities,
          r \in MathRanges, p \in UNION { MathPrices(x) : x \in MathRanges } }

InitMath ==
    /\ \E c \in MathCalls : call = c
    /\ pc = "math"
    /\ config = BaseConfig
    /\ series = << >>
    /\ clock = 0
    /\ i = 0
    /\ lastPrice = 0
    /\ returns = << >>
    /\ prices = << >>
    /\ pool = Undefined
    /\ vault = Undefined
    /\ stats = Undefined
    /\ equityCurve = << >>
    /\ actionsLog = << >>
    /\ decision = Undefined
    /\ pending = << >>
    /\ error = NoError
    /\ result = Undefined
    /\ pre = Undefined
    /\ wanted = {}
    /\ prev = Undefined
    /\ gen = Undefined

MathFrame ==
    UNCHANGED << config, series, clock, i, lastPrice, returns, prices, pool, vault, stats,
                 equityCurve, actionsLog, decision, pending, error, result, pre,
                 wanted, prev, gen >>

\* the call addLiquidityAmounts(baseAvailable, quoteAvailable, lower, upper, price)
CallAddLiquidityAmounts ==
    /\ pc = "math"
    /\ call.fn = "addLiquidityAmounts"
    /\ call' = [call EXCEPT !.sized = addLiquidityAmounts(call.baseAvailable, call.quoteAvailable,
                                                          call.lower, call.upper, call.price)]
    /\ pc' = "sized"
    /\ MathFrame

\* the call getAmountsForLiquidity(liquidity, lower, upper, price), on the
\* liquidity just sized or on a liquidity given
CallGetAmountsForLiquidity ==
    /\ \/ pc = "sized"
       \/ pc = "math" /\ call.fn = "getAmountsForLiquidity"
    /\ LET liquidity == IF pc = "sized" THEN call.sized.liquidity ELSE call.liquidity
       IN  call' = [call EXCEPT !.amounts = getAmountsForLiquidity(liquidity, call.lower,
                                                                   call.upper, call.price)]
    /\ pc' = "returned"
    /\ MathFrame

NextMath == CallAddLiquidityAmounts \/ CallGetAmountsForLiquidity

SpecMath == InitMath /\ [][NextMath]_vars

\* a sizing followed by the amounts of the liquidity it returned
RoundTripDone == pc = "returned" /\ call.fn = "addLiquidityAmounts"

SizingTol == Scale \div 1000

\* C12 as stated: the amounts of the liquidity returned by addLiquidityAmounts
\* are exactly (baseUsed, quoteUsed), and neither exceeds what was available.
C12_RoundTripExact ==
    RoundTripDone =>
        /\ call.amounts.baseAmount = call.sized.baseUsed
        /\ call.amounts.quoteAmount = call.sized.quoteUsed
        /\ call.sized.baseUsed <= call.baseAvailable
        /\ call.sized.quoteUsed <= call.quoteAvailable

\* C12: the amounts of the liquidity returned by addLiquidityAmounts are
\* (baseUsed, quoteUsed) within rounding, and neither exceeds what was
\* available by more than rounding.
C12_RoundTripWithinRounding ==
    RoundTripDone =>
        /\ Abs(call.amounts.baseAmount - call.sized.baseUsed) <= SizingTol
        /\ Abs(call.amounts.quoteAmount - call.sized.quoteUsed) <= SizingTol
        /\ call.sized.baseUsed <= call.baseAvailable + SizingTol
        /\ call.sized.quoteUsed <= call.quoteAvailable + SizingTol

C12_Witness ==
    /\ RoundTripDone
    /\ call.lower < call.price /\ call.price < call.upper
    /\ call.sized.liquidity > 0
    /\ call.amounts.baseAmount > 0 /\ call.amounts.quoteAmount > 0
    /\ call.sized.baseUsed < call.baseAvailable

\* C13: at price = lower the below-range result of getAmountsForLiquidity is
\* the in-range formula at lower, and at price = upper the above-range result
\* is the in-range formula at upper.
C13_ContinuousAtBounds ==
    (pc = "returned" /\ call.fn = "getAmountsForLiquidity") =>
        /\ call.price = call.lower =>
               call.amounts = InRangeAmounts(call.liquidity, call.lower, call.upper, call.lower)
        /\ call.price = call.upper =>
               call.amounts = InRangeAmounts(call.liquidity, call.lower, call.upper, call.upper)

C13_Witness ==
    /\ pc = "returned" /\ call.fn = "getAmountsForLiquidity"
    /\ call.price = call.upper
    /\ call.liquidity > 0
    /\ call.amounts.quoteAmount > 0

\* ------------------------------------------------------------------------
\* The run under the scheduling of the code: runBacktest is synchronous and
\* single-threaded, so a step that can be taken is taken
\* ------------------------------------------------------------------------

\* the call has neither returned nor thrown
Running == pc \notin {"done", "error"}

ControlPoints == {"call", "tick", "seed", "decide", "costs", "actions", "record", "finish", "done", "error"}

\* a step of the run as the control location and the pending actions show it:
\* every step of Next moves pc or consumes the head of pending
Proceeds ==
    /\ Running
    /\ pc' \in ControlPoints
    /\ pending' \in {pending} \cup {Tail(q) : q \in {pending} \ {<< >>}}
                              \cup {d.actions : d \in {decision} \ {Undefined}}

SpecLive == Init /\ [][Next]_vars /\ WF_<< pc, pending >>(Proceeds)

\* every tick was processed, in order, and the call returned
ReturnedAfterEveryTick ==
    /\ pc = "done"
    /\ i = Len(series)
    /\ Len(equityCurve) = Len(series)
    /\ \A k \in 1..Len(series) : equityCurve[k].ts = series[k].ts

\* C14: a call on a non-empty series returns, after series.length iterations
\* of the loop, each tick processed once.
C14_TerminatesAfterEveryTick ==
    (pc = "call" /\ Len(series) > 0) ~> ReturnedAfterEveryTick

C14_Witness ==
    /\ ReturnedAfterEveryTick
    /\ Len(series) = MaxTicks
    /\ Len(actionsLog) > 0

\* ------------------------------------------------------------------------
\* generateSampleSeries (src/src/data/sample.ts), called twice
\* ------------------------------------------------------------------------

\* Math.exp(x): halving until the argument is small, then the Taylor series
RECURSIVE Exp(_)
Exp(x) ==
    IF Abs(x) > Scale \div 4
    THEN LET h == Exp(x \div 2) IN Mul(h, h)
    ELSE LET x2 == Mul(x, x)
             x3 == Mul(x2, x)
             x4 == Mul(x3, x)
         IN  Scale + x + x2 \div 2 + x3 \div 6 + x4 \div 24

Pi == 31416

\* Math.cos(x) for 0 <= x <= 2 * Pi: folded into the first quadrant
RECURSIVE Cos(_)
Cos(x) ==
    IF x > Pi THEN Cos(2 * Pi - x)
    ELSE IF 2 * x > Pi THEN -Cos(Pi - x)
    ELSE LET x2 == Mul(x, x)
             x4 == Mul(x2, x2)
             x6 == Mul(x4, x2)
         IN  Scale - x2 \div 2 + x4 \div 24 - x6 \div 720

\* the 32-bit state of the generator, as two 16-bit halves
createRng(seed) == [hi |-> (seed \div 65536) % 65536, lo |-> seed % 65536]

\* state = (1664525 * state + 1013904223) >>> 0, computed half by half:
\* 1664525 = 25 * 2^16 + 26125 and 1013904223 = 15470 * 2^16 + 62303
LcgNext(s) ==
    LET low == 26125 * s.lo + 62303
    IN  [hi |-> (26125 * s.hi + 25 * s.lo + 15470 + low \div 65536) % 65536,
         lo |-> low % 65536]

\* state / 0xffffffff
Uniform(s) == (s.hi * Scale + (s.lo * Scale) \div 65536) \div 65536

\* while (u === 0) u = rng.next(): the state after the first non-zero draw
RECURSIVE NextNonZero(_)
NextNonZero(s) ==
    Bind(LcgNext(s), LAMBDA t :
        IF t.hi = 0 /\ t.lo = 0 THEN NextNonZero(t) ELSE t)

\* lines 17-23: Box-Muller; a non-zero draw below the resolution stays positive
randn(s) ==
    Bind(NextNonZero(s), LAMBDA su :
    Bind(NextNonZero(su), LAMBDA sv :
        LET u == Max(1, Uniform(su))
            v == Max(1, Uniform(sv))
        IN  [rng |-> sv,
             value |-> Mul(Sqrt(Mul(-2 * Scale, Ln(u))), Cos(Mul(2 * Pi, v)))]))

HourMs == 60 * 60 * 1000

\* new Date(timestampMs).getUTCHours()
getUTCHours(timestampMs) == (timestampMs \div HourMs) % 24

\* lines 35-75
calculateGasPrice(baseGasUsd, timestampMs, priceVolatility, isL2, s) ==
    Bind(getUTCHours(timestampMs), LAMBDA hour :
    Bind(LcgNext(s), LAMBDA s1 :
    Bind(LcgNext(s1), LAMBDA s2 :
    Bind(Uniform(s2) < 500, LAMBDA spikes :
    Bind(IF spikes THEN LcgNext(s2) ELSE s2, LAMBDA s3 :
        LET timeFactor ==
                IF hour >= 14 /\ hour <= 22 THEN 13000 + Mul(Uniform(s1), 4000)
                ELSE IF hour >= 6 /\ hour <= 14 THEN Scale + Mul(Uniform(s1), 3000)
                ELSE 7000 + Mul(Uniform(s1), 3000)
            volFactor == Scale + Mul(priceVolatility, 2 * Scale)
            spikeFactor == IF spikes THEN 2 * Scale + Mul(Uniform(s3), 3 * Scale) ELSE Scale
            l2Discount == IF isL2 THEN 3000 ELSE Scale
            stabilityFactor == IF isL2 THEN 5000 ELSE Scale
            adjustedTimeFactor == Scale + Mul(timeFactor - Scale, stabilityFactor)
            adjustedSpikeFactor == Scale + Mul(spikeFactor - Scale, stabilityFactor)
        IN  [rng |-> s3,
             value |-> Mul(Mul(Mul(Mul(baseGasUsd, adjustedTimeFactor), volFactor),
                               adjustedSpikeFactor), l2Discount)])))))

\* lines 86-103
calculateVolume(priceReturn, baseVolumeUsd, volatilityMultiplier, s) ==
    Bind(randn(s), LAMBDA r :
    Bind(LcgNext(r.rng), LAMBDA s2 :
        LET absReturn == Abs(priceReturn)
            volMultiplier == Scale + Mul(absReturn, volatilityMultiplier)
            noise == Exp(Mul(r.value, 3000))
            hourNoise == 8000 + Mul(Uniform(s2), 4000)
        IN  [rng |-> s2,
             value |-> Mul(Mul(Mul(baseVolumeUsd, volMultiplier), noise), hourNoise)]))

RECURSIVE SumOfSquares(_, _)
SumOfSquares(rs, k) ==
    IF k > Len(rs) THEN 0 ELSE Mul(rs[k], rs[k]) + SumOfSquares(rs, k + 1)

\* lines 159-163: volatility of the last 24 returns, annualized
RollingVol(rets, stepMinutes) ==
    LET recentReturns == SubSeq(rets, Max(1, Len(rets) - 23), Len(rets))
    IN  IF Len(recentReturns) > 1
        THEN Mul(Sqrt(Div(SumOfSquares(recentReturns, 1), Len(recentReturns) * Scale)),
                 Sqrt(((365 * 24 * 60 * 100) \div stepMinutes) * (Scale \div 100)))
        ELSE Scale \div 2

\* lines 129-182: one iteration of the loop: the locals after it and the point pushed
SamplePoint(cfg, g, k) ==
    Bind(cfg.timeStepMinutes, LAMBDA stepMinutes :
    Bind(randn(g.rng), LAMBDA shock :
    Bind(Mul(g.price, Exp(g.driftStep + Mul(shock.value, g.volStep))), LAMBDA price :
    Bind(IF k > 0 THEN Div(price - g.lastPrice, g.lastPrice) ELSE 0, LAMBDA priceReturn :
    Bind(IF k > 0 THEN Append(g.returns, priceReturn) ELSE g.returns, LAMBDA rets :
    Bind(calculateVolume(priceReturn,
                         Mul(g.baseHourlyVolume, Div(stepMinutes * Scale, 60 * Scale)),
                         50 * Scale, shock.rng), LAMBDA volume :
    Bind(LcgNext(volume.rng), LAMBDA s4 :
    Bind(calculateGasPrice(cfg.gasUsd, g.startMs + k * g.stepMs,
                           RollingVol(rets, stepMinutes), cfg.gasUsd < 2 * Scale, s4), LAMBDA gas :
        LET hoursPerStep == Div(stepMinutes * Scale, 60 * Scale)
            \* x / (liquidityUsd * hoursPerStep), divided in two steps
            feesApr == Div(Div(Mul(Mul(Mul(volume.value, g.feeTier), 365 * Scale), 24 * Scale),
                               cfg.liquidityUsd), hoursPerStep)
            emissionNoise == Mul(Uniform(s4) - Scale \div 2, 200)
            emissionsApr ==
                clamp(Mul(cfg.emissionsApr, Scale + Mul(emissionNoise, 6000)), 0, 2 * Scale)
        IN  [locals |-> [g EXCEPT !.rng = gas.rng, !.price = price, !.lastPrice = price,
                                  !.returns = rets],
             point |-> [ts |-> g.startMs + k * g.stepMs,
                        price |-> price,
                        feesApr |-> clamp(feesApr, 0, 2 * Scale),
                        emissionsApr |-> emissionsApr,
                        liquidityUsd |-> cfg.liquidityUsd,
                        gasUsd |-> gas.value,
                        volumeUsd |-> volume.value,
                        feeTier |-> g.feeTier]]))))))))

\* lines 106-126: the locals before the loop; now is what Date.now() returns
SampleLocals(cfg, now) ==
    LET stepMinutes == cfg.timeStepMinutes
        steps == Max(1, (cfg.lookbackDays * 24 * 60) \div stepMinutes)
        stepMs == stepMinutes * 60 * 1000
    IN  [steps |-> steps,
         stepMs |-> stepMs,
         startMs |-> now - steps * stepMs,
         rng |-> createRng(cfg.sample.seed),
         volStep |-> Mul(cfg.sample.volDaily, Sqrt(Div(stepMinutes * Scale, 24 * 60 * Scale))),
         driftStep |-> Mul(Div(cfg.sample.driftDaily, 24 * 60 * Scale), stepMinutes * Scale),
         feeTier |-> 30,
         baseHourlyVolume |-> Div(Mul(cfg.liquidityUsd, 2000), 24 * Scale),
         price |-> cfg.sample.startPrice,
         lastPrice |-> cfg.sample.startPrice,
         returns |-> << >>]

SampleSeeds == {7, 42, 20240229}

SampleStepMinutes == {480, 720}

SampleGasUsd == {6000, 5 * Scale}

\* wall-clock times of the first call, in ms from a midnight UTC: at 00:00,
\* 07:30 and 15:00 of the tenth day after it
SampleClocks == { 10 * 24 * HourMs + d : d \in {0, 7 * HourMs + HourMs \div 2, 15 * HourMs} }

\* how much later the second call is made
SampleDelays == {0, 1, HourMs, 9 * HourMs}

SampleConfigs ==
    { [timeStepMinutes |-> m, lookbackDays |-> 1,
       emissionsApr |-> 2000, liquidityUsd |-> 5000 * Scale, gasUsd |-> g,
       sample |-> [startPrice |-> 1800 * Scale, volDaily |-> 400, driftDaily |-> 0, seed |-> sd],
       rebalanceParams |-> defaultParams] :
          m \in SampleStepMinutes, g \in SampleGasUsd, sd \in SampleSeeds }

InitSample ==
    /\ config \in SampleConfigs
    /\ clock \in SampleClocks
    /\ pc = "generate"
    /\ gen = Undefined
    /\ series = << >>
    /\ i = 0
    /\ prev = Undefined
    /\ lastPrice = 0
    /\ returns = << >>
    /\ prices = << >>
    /\ pool = Undefined
    /\ vault = Undefined
    /\ stats = Undefined
    /\ equityCurve = << >>
    /\ actionsLog = << >>
    /\ decision = Undefined
    /\ pending = << >>
    /\ error = NoError
    /\ result = Undefined
    /\ pre = Undefined
    /\ wanted = {}
    /\ call = Undefined

SampleFrame ==
    UNCHANGED << config, lastPrice, returns, prices, pool, vault, stats, equityCurve,
                 actionsLog, decision, pending, error, result, pre, wanted, call >>

\* lines 106-126: generateSampleSeries up to the loop
GenStart ==
    /\ pc = "generate"
    /\ gen' = SampleLocals(config, clock)
    /\ series' = << >>
    /\ i' = 0
    /\ pc' = "sample"
    /\ UNCHANGED << clock, prev >>
    /\ SampleFrame

\* lines 128-187: one iteration of the loop, and the return after the last one
GenPoint ==
    /\ pc = "sample"
    /\ \E r \in {SamplePoint(config, gen, i)} :
           /\ gen' = r.locals
           /\ series' = Append(series, r.point)
    /\ i' = i + 1
    /\ pc' = IF i + 1 < gen.steps THEN "sample" ELSE "generated"
    /\ UNCHANGED << clock, prev >>
    /\ SampleFrame

\* the same call made again, the same config, some time later
GenAgain ==
    /\ pc = "generated"
    /\ prev = Undefined
    /\ prev' = series
    /\ \E d \in SampleDelays : clock' = clock + d
    /\ pc' = "generate"
    /\ UNCHANGED << gen, series, i >>
    /\ SampleFrame

NextSample == GenStart \/ GenPoint \/ GenAgain

SpecSample == InitSample /\ [][NextSample]_vars

\* C15: two calls of generateSampleSeries with the same config return the
\* same series, equal in every field of every point.
C15_SameConfigSameSeries ==
    (pc = "generated" /\ prev # Undefined) => series = prev

\* C16: the one position slot of the vault, when occupied, holds a range
\* with lower < upper strictly, whether the position was opened by the initial
\* seeding or by ADD_LIQUIDITY.
C16_PositionRangeNonEmpty ==
    (pc = "returned" /\ vault.position.open) =>
        vault.position.lower < vault.position.upper

\* ------------------------------------------------------------------------
\* A row of the CSV market data, loaded (src/src/data/csv.ts) and turned into
\* the PoolSnapshot of its tick
\* ------------------------------------------------------------------------

EconomicFields == {"feesApr", "emissionsApr", "liquidityUsd", "gasUsd"}

\* what the file holds for one field of one row: no such column in the
\* header, an empty cell, a cell that is not a number, "Infinity", a number
CsvCells ==
    { [kind |-> k, v |-> 0] : k \in {"nocolumn", "empty", "text", "infinity"} }
    \cup { [kind |-> "number", v |-> n] : n \in {-Scale, 0, 500, 3 * Scale} }

\* Number(parts[idx])
NumberOf(cell) ==
    IF cell.kind = "number" THEN Fin(cell.v)
    ELSE IF cell.kind = "empty" THEN Fin(0)
    ELSE NaN

\* lines 40-43: idx >= 0 ? Number(parts[idx]) : 0
CsvField(cell) == IF cell.kind = "nocolumn" THEN Fin(0) ELSE NumberOf(cell)

\* lines 37-44: the MarketPoint of a row with a finite timestamp and price
CsvPoint(ts, price, cells) ==
    [ts           |-> ts,
     price        |-> price,
     feesApr      |-> CsvField(cells.feesApr),
     emissionsApr |-> CsvField(cells.emissionsApr),
     liquidityUsd |-> CsvField(cells.liquidityUsd),
     gasUsd       |-> CsvField(cells.gasUsd)]

CsvRows ==
    { [fn |-> "loadCsvSeries", ts |-> StepMs(BaseConfig), price |-> 4 * Scale,
       cells |-> [feesApr |-> a, emissionsApr |-> b, liquidityUsd |-> c, gasUsd |-> d]] :
          a \in CsvCells, c \in CsvCells, d \in CsvCells,
          b \in { x \in CsvCells : x.kind # "number" \/ x.v = 500 } }

InitCsv ==
    /\ call \in CsvRows
    /\ pc = "csv"
    /\ config = BaseConfig
    /\ series = << >>
    /\ pool = Undefined
    /\ clock = 0
    /\ i = 0
    /\ lastPrice = 0
    /\ returns = << >>
    /\ prices = << >>
    /\ vault = Undefined
    /\ stats = Undefined
    /\ equityCurve = << >>
    /\ actionsLog = << >>
    /\ decision = Undefined
    /\ pending = << >>
    /\ error = NoError
    /\ result = Undefined
    /\ pre = Undefined
    /\ wanted = {}
    /\ prev = Undefined
    /\ gen = Undefined

CsvFrame ==
    UNCHANGED << config, clock, i, lastPrice, returns, vault, stats, equityCurve,
                 actionsLog, decision, pending, error, result, pre, wanted, prev,
                 call, gen >>

\* loadCsvSeries on a file of one row
LoadCsvRow ==
    /\ pc = "csv"
    /\ series' = << CsvPoint(call.ts, call.price, call.cells) >>
    /\ pc' = "loaded"
    /\ UNCHANGED << pool, prices >>
    /\ CsvFrame

\* engine.ts lines 60-87: the PoolSnapshot of the first tick of the series
BuildSnapshot ==
    /\ pc = "loaded"
    /\ prices' = << series[1].price >>
    /\ pool' = Snapshot(config, series[1], << >>, << series[1].price >>)
    /\ pc' = "returned"
    /\ UNCHANGED series
    /\ CsvFrame

NextCsv == LoadCsvRow \/ BuildSnapshot

SpecCsv == InitCsv /\ [][NextCsv]_vars

\* a field the data does not give, or gives as something that is not a
\* finite number, or as a liquidity <= 0 or a gas cost < 0
NotUsable(f, cell) ==
    \/ cell.kind # "number"
    \/ f = "liquidityUsd" /\ cell.v <= 0
    \/ f = "gasUsd" /\ cell.v < 0

\* the snapshot's value of field f
SnapshotField(f) ==
    IF f = "feesApr" THEN pool.feesApr
    ELSE IF f = "emissionsApr" THEN pool.emissionsApr
    ELSE IF f = "liquidityUsd" THEN pool.liquidityUsd
    ELSE pool.gasUsd

\* the config's default of field f
ConfigField(f) ==
    IF f = "feesApr" THEN config.feesApr
    ELSE IF f = "emissionsApr" THEN config.emissionsApr
    ELSE IF f = "liquidityUsd" THEN config.liquidityUsd
    ELSE config.gasUsd

\* the data's cell of field f
CellOf(f) ==
    IF f = "feesApr" THEN call.cells.feesApr
    ELSE IF f = "emissionsApr" THEN call.cells.emissionsApr
    ELSE IF f = "liquidityUsd" THEN call.cells.liquidityUsd
    ELSE call.cells.gasUsd

\* C17: a fee APR, emission APR, liquidity or gas field that the market data
\* lacks or gives as non-finite (liquidity also <= 0, gas also < 0) is the
\* config default in the PoolSnapshot, and a valid one is used unchanged.
C17_DefaultsForUnusableFields ==
    pc = "returned" =>
        \A f \in EconomicFields :
            SnapshotField(f) = IF NotUsable(f, CellOf(f)) THEN ConfigField(f) ELSE CellOf(f).v

\* ------------------------------------------------------------------------
\* Gas and the action log over the run
\* ------------------------------------------------------------------------

\* the sum of the gasUsd of the entries k.. of the log
RECURSIVE GasOfLog(_, _)
GasOfLog(log, k) == IF k > Len(log) THEN 0 ELSE log[k].gasUsd + GasOfLog(log, k + 1)

\* gas, MEV and the rebalance count are charged and the entry is not pushed yet
Charged == pc = "actions"

\* the ticks (0-based) whose decision was actionable, as timestamps
WantedTs == { series[k + 1].ts : k \in wanted }

\* C18: the cumulative gas is the sum of pool.gasUsd over the applied
\* decisions and the rebalance count is their number, one log entry each,
\* however many actions a decision has; entries come only from actionable
\* ticks and hold a non-NOOP action; the summary reports the same totals.
C18_GasOncePerEvent ==
    /\ (stats # Undefined /\ pc # "error") =>
           /\ stats.rebalances = Len(actionsLog) + (IF Charged THEN 1 ELSE 0)
           /\ stats.gasUsd = GasOfLog(actionsLog, 1) + (IF Charged THEN pool.gasUsd ELSE 0)
           /\ \A k \in 1..Len(actionsLog) :
                  /\ actionsLog[k].ts \in WantedTs
                  /\ \E n \in 1..Len(actionsLog[k].actions) : actionsLog[k].actions[n] # "NOOP"
                  /\ k > 1 => actionsLog[k - 1].ts < actionsLog[k].ts
    /\ pc = "done" =>
           /\ result.summary.rebalances = Len(result.actions)
           /\ result.summary.gasUsd = GasOfLog(result.actions, 1)

C18_Witness ==
    /\ pc = "done"
    /\ Len(result.actions) >= 1
    /\ Len(result.actions) < Len(series) - 1
    /\ \E k \in 1..Len(result.actions) : Len(result.actions[k].actions) >= 2
    /\ result.summary.gasUsd > 0

\* ------------------------------------------------------------------------
\* deductGas and removeLiquidity, called on their own
\* ------------------------------------------------------------------------

GasDeducted == pc = "returned" /\ call.fn = "deductGas"

\* C19: deductGas with c > 0 takes c from the quote balance when it covers
\* c; otherwise it empties the quote balance and takes the shortfall, at the
\* current price, from the base balance, which stops at 0.  With c <= 0
\* nothing changes.  Position and unclaimed rewards are left alone.
C19_DeductGasDrainsQuoteFirst ==
    GasDeducted =>
        LET before == call.vault
            c == call.gasUsd
            baseNeeded == Div(c - before.quoteBalance, call.price)
        IN  /\ c <= 0 => vault = before
            /\ (c > 0 /\ before.quoteBalance >= c) =>
                   /\ vault.quoteBalance = before.quoteBalance - c
                   /\ vault.baseBalance = before.baseBalance
            /\ (c > 0 /\ before.quoteBalance < c) =>
                   /\ vault.quoteBalance = 0
                   /\ before.baseBalance >= baseNeeded =>
                          vault.baseBalance = before.baseBalance - baseNeeded
                   /\ before.baseBalance < baseNeeded => vault.baseBalance = 0
            /\ vault.baseBalance >= 0 /\ vault.quoteBalance >= 0
            /\ vault.position = before.position
            /\ vault.unclaimedRewardsUsd = before.unclaimedRewardsUsd

C19_Witness ==
    /\ GasDeducted
    /\ call.gasUsd > call.vault.quoteBalance
    /\ call.vault.quoteBalance > 0
    /\ vault.quoteBalance = 0
    /\ vault.baseBalance > 0 /\ vault.baseBalance < call.vault.baseBalance

LiquidityRemoved == pc = "returned" /\ call.fn = "removeLiquidity"

\* what the claim says removeLiquidity leaves of the vault it was called on
RemovedAsStated ==
    LET before == call.vault
        position == before.position
        percent == clamp(call.percent, 0, Scale)
        amounts == getAmountsForLiquidity(position.liquidity, position.lower, position.upper,
                                          call.price)
        residual == Mul(position.liquidity, Scale - percent)
    IN  IF ~position.open THEN vault = before
        ELSE /\ vault.baseBalance = Add(before.baseBalance, Mul(amounts.baseAmount, percent))
             /\ vault.quoteBalance = Add(before.quoteBalance, Mul(amounts.quoteAmount, percent))
             /\ vault.position.open <=> ~LE(residual, Scale \div 100)
             /\ vault.position.open =>
                    vault.position = [position EXCEPT !.liquidity = residual]
             /\ vault.unclaimedRewardsUsd = before.unclaimedRewardsUsd

\* C20: removeLiquidity clamps percent to [0, 1], credits the idle balances
\* with that fraction of the position's amounts at the current price, scales
\* the liquidity by (1 - percent) and destroys the position exactly when the
\* residual is <= 0.01, so that percent >= 1 always leaves no position; on a
\* vault without a position it changes nothing.
C20_RemoveLiquidityAsStated ==
    LiquidityRemoved =>
        /\ RemovedAsStated
        /\ call.percent >= Scale => ~vault.position.open

\* ------------------------------------------------------------------------
\* ADD_LIQUIDITY in a run
\* ------------------------------------------------------------------------

\* the next action applyDecision applies is ADD_LIQUIDITY
AddLiquidityNext ==
    pc = "actions" /\ pending # << >> /\ Head(pending).type = "ADD_LIQUIDITY"

\* applyDecision has returned from a decision of a range strategy
RangeRebalanceApplied ==
    /\ pc = "record"
    /\ pre # Undefined
    /\ decision # Undefined
    /\ decision.strategy \in {"range-around-twap", "trend-skew"}

\* the vault ADD_LIQUIDITY was applied to: the one before the decision, after
\* its costs and the removal of the whole position
VaultBeforeAdd ==
    removeLiquidity(ChargeCosts(pre.vault, pre.stats, decision, pool).vault, pool.price, Scale)

\* C21: a decision holds ADD_LIQUIDITY only right after REMOVE_LIQUIDITY of
\* 100 %, so the vault has no position when ADD_LIQUIDITY is applied; once
\* the decision of a range strategy is applied the vault has a position with
\* the bounds of the action, sized from the idle balances by
\* addLiquidityAmounts, and the balances are lower by the amounts it used.
C21_AddLiquidityOpensPosition ==
    /\ decision # Undefined =>
           \A k \in 1..Len(decision.actions) :
               decision.actions[k].type = "ADD_LIQUIDITY" =>
                   /\ k > 1
                   /\ decision.actions[k - 1] = [type |-> "REMOVE_LIQUIDITY", percent |-> Scale]
    /\ AddLiquidityNext => ~vault.position.open
    /\ RangeRebalanceApplied =>
           \E before \in {VaultBeforeAdd} :
           \E action \in {decision.actions[Len(decision.actions)]} :
           \E r \in {addLiquidityAmounts(before.baseBalance, before.quoteBalance,
                                         action.lower, action.upper, pool.price)} :
               /\ action.type = "ADD_LIQUIDITY"
               /\ vault.position.open
               /\ vault.position.lower = action.lower
               /\ vault.position.upper = action.upper
               /\ vault.position.liquidity = r.liquidity
               /\ vault.baseBalance = before.baseBalance - r.baseUsed
               /\ vault.quoteBalance = before.quoteBalance - r.quoteUsed

\* ------------------------------------------------------------------------
\* claimRewards and swapInventory on their own
\* ------------------------------------------------------------------------

RewardsClaimed == pc = "returned" /\ call.fn = "claimRewards"

\* C22: claimRewards moves the whole unclaimed-rewards balance r into the
\* quote balance and resets the rewards to zero; the base balance and the
\* position are left alone; with r <= 0 nothing changes.
C22_ClaimRewardsMovesAll ==
    RewardsClaimed =>
        LET before == call.vault
            r == before.unclaimedRewardsUsd
        IN  /\ r <= 0 => vault = before
            /\ r > 0 =>
                   /\ vault.quoteBalance = before.quoteBalance + r
                   /\ vault.unclaimedRewardsUsd = 0
            /\ vault.baseBalance = before.baseBalance
            /\ vault.position = before.position

C22_Witness ==
    /\ RewardsClaimed
    /\ call.vault.unclaimedRewardsUsd > 0
    /\ call.vault.position.open
    /\ vault.unclaimedRewardsUsd = 0
    /\ vault.quoteBalance > call.vault.quoteBalance

Swapped == pc = "returned" /\ call.fn = "swapInventory"

\* the amount of the from-asset a SWAP debits
SwapDebit == Min(call.amount, IF call.from = "base" THEN call.vault.baseBalance
                              ELSE call.vault.quoteBalance)

\* the effective price of the swap
SwapPrice ==
    IF call.from = "base"
    THEN getEffectiveSwapPrice(call.price, Mul(SwapDebit, call.price), call.poolLiquidityUsd,
                               FALSE, SwapSpreadBps, PriceImpactBps)
    ELSE getEffectiveSwapPrice(call.price, SwapDebit, call.poolLiquidityUsd,
                               TRUE, SwapSpreadBps, PriceImpactBps)

\* C23: a SWAP debits min(amount, balance of the from-asset) and credits the
\* other asset at the effective price, which is at or below the mid price for
\* a sale of base and at or above it for a buy; the total vault value at the
\* mid price never grows; with amount <= 0 nothing changes.
C23_SwapAtEffectivePrice ==
    Swapped =>
        LET before == call.vault
        IN  /\ call.amount <= 0 => vault = before
            /\ (call.amount > 0 /\ call.from = "base") =>
                   /\ SwapPrice <= call.price
                   /\ vault.baseBalance = before.baseBalance - SwapDebit
                   /\ vault.quoteBalance = before.quoteBalance + Mul(SwapDebit, SwapPrice)
            /\ (call.amount > 0 /\ call.from = "quote") =>
                   /\ SwapPrice >= call.price
                   /\ vault.quoteBalance = before.quoteBalance - SwapDebit
                   /\ vault.baseBalance = before.baseBalance + Div(SwapDebit, SwapPrice)
            /\ totalVaultValue(vault, call.price) <= totalVaultValue(before, call.price)
            /\ vault.position = before.position
            /\ vault.unclaimedRewardsUsd = before.unclaimedRewardsUsd

C23_Witness ==
    /\ Swapped
    /\ call.from = "quote"
    /\ call.amount > call.vault.quoteBalance
    /\ vault.quoteBalance = 0
    /\ vault.baseBalance > call.vault.baseBalance
    /\ totalVaultValue(vault, call.price) < totalVaultValue(call.vault, call.price)

\* ------------------------------------------------------------------------
\* The evaluators on their own: the context is an input, each call is a step
\* ------------------------------------------------------------------------

\* the callees: decide of the four strategies, and StrategyRunner.pickBest
Evaluators == {"range-around-twap", "trend-skew", "inventory-target", "reward-compound", "pickBest"}

EvalPools ==
    { [type |-> t, price |-> p, twapShort |-> ts, twapLong |-> 44200, vol |-> v,
       feesApr |-> a, emissionsApr |-> a, liquidityUsd |-> BaseConfig.liquidityUsd,
       gasUsd |-> g] :
          t \in PoolTypes, p \in {4 * Scale, 48400}, ts \in {44200, 48400},
          v \in {0, 25613}, a \in {2000, 5 * Scale}, g \in {500, 4000, 60 * Scale} }

\* the vault seedInitialPosition leaves at price 4.00
SeededVault ==
    seedInitialPosition(InitialVault(1000 * Scale, 4 * Scale), FirstTickPool(4 * Scale),
                        defaultParams, 0)

\* the vault seedInitialPosition leaves at price 4.00 under volatility 2.5613
WideSeededVault ==
    seedInitialPosition(InitialVault(1000 * Scale, 4 * Scale),
                        [FirstTickPool(4 * Scale) EXCEPT !.vol = 25613], defaultParams, 0)

\* vaults: the initial one, one seeded at 4.00, the same with fees collected
\* since, one seeded on a wider range, one holding quote only, and one with
\* rewards above rewardsClaimUsd
EvalVaults ==
    { InitialVault(1000 * Scale, 4 * Scale),
      SeededVault,
      WideSeededVault,
      [SeededVault EXCEPT !.quoteBalance = 500 * Scale],
      [InitialVault(1000 * Scale, 4 * Scale) EXCEPT !.baseBalance = 0],
      [InitialVault(1000 * Scale, 4 * Scale) EXCEPT !.unclaimedRewardsUsd = 75 * Scale] }

\* the StrategyContext of a call made on its own
EvalCtx == [pool |-> pool, vault |-> vault, params |-> config.rebalanceParams, nowMs |-> clock]

\* what the callee returns for a context
Evaluate(fn, ctx) == IF fn = "pickBest" THEN pickBest(ctx) ELSE Decide(fn, ctx)

\* an evaluator that empties the unclaimed rewards it proposes to claim
ContextAfterClaiming(fn, ctx) ==
    IF fn = "reward-compound" /\ RewardCompoundDecide(ctx).shouldRebalance
    THEN [ctx EXCEPT !.vault.unclaimedRewardsUsd = 0]
    ELSE ctx

\* the context after the call: no decide method and no line of pickBest
\* assigns to ctx or to anything reachable from it
ContextAfter(fn, ctx) == ctx

InitEval ==
    /\ \E fn \in Evaluators, p \in EvalPools, v \in EvalVaults :
           /\ call = [fn |-> fn, pool |-> p, vault |-> v]
           /\ pool = p
           /\ vault = v
    /\ pc = "evaluate"
    /\ config = BaseConfig
    /\ series = << >>
    /\ clock = 0
    /\ i = 0
    /\ lastPrice = 0
    /\ returns = << >>
    /\ prices = << >>
    /\ stats = Undefined
    /\ equityCurve = << >>
    /\ actionsLog = << >>
    /\ decision = Undefined
    /\ pending = << >>
    /\ error = NoError
    /\ result = Undefined
    /\ pre = Undefined
    /\ wanted = {}
    /\ prev = Undefined
    /\ gen = Undefined

\* one call of the evaluator on the context the variables hold
CallEvaluator ==
    /\ pc = "evaluate"
    /\ \E ctx \in {EvalCtx} :
       \E after \in {ContextAfter(call.fn, ctx)} :
           /\ decision' = Evaluate(call.fn, ctx)
           /\ vault' = after.vault
           /\ pool' = after.pool
           /\ config' = [config EXCEPT !.rebalanceParams = after.params]
    /\ prev' = decision
    /\ pc' = IF decision = Undefined THEN "evaluate" ELSE "evaluated"
    /\ UNCHANGED << series, clock, i, lastPrice, returns, prices, stats, equityCurve,
                    actionsLog, pending, error, result, pre, wanted, call, gen >>

NextEval == CallEvaluator

SpecEval == InitEval /\ [][NextEval]_vars

expectedGainUsd(name, ctx) ==
    CASE name = "reward-compound"  -> ctx.vault.unclaimedRewardsUsd
      [] name = "inventory-target" ->
             estimateFeeGain(ctx, Mul(ctx.vault.baseBalance, ctx.pool.price)
                                  + ctx.vault.quoteBalance)
      [] OTHER -> estimateFeeGain(ctx, strategyTotalVaultValue(ctx))

\* the strategy `name` reaches its gas test: none of the noop returns
\* before it is taken
Triggered(name, ctx) ==
    CASE name = "range-around-twap" ->
             /\ ctx.pool.type = "cl"
             /\ \/ ~ctx.vault.position.open
                \/ ctx.pool.price < ctx.vault.position.lower
                \/ ctx.pool.price > ctx.vault.position.upper
                \/ Abs(Div(ctx.vault.position.upper - ctx.vault.position.lower,
                           2 * ctx.pool.twapLong)
                       - clamp(volToBandWidth(ctx.pool.vol, ctx.params.targetRebalanceHours,
                                              ctx.params.bandWidthK),
                               ctx.params.minBandWidth, ctx.params.maxBandWidth)) > 50
      [] name = "trend-skew" ->
             /\ ctx.pool.type = "cl"
             /\ Abs(Div(ctx.pool.twapShort, ctx.pool.twapLong) - Scale)
                    >= ctx.params.trendThreshold
      [] name = "inventory-target" ->
             /\ ctx.pool.type # "cl"
             /\ Mul(ctx.vault.baseBalance, ctx.pool.price) + ctx.vault.quoteBalance > 0
             /\ Abs(Div(Mul(ctx.vault.baseBalance, ctx.pool.price)
                        - Mul(Mul(ctx.vault.baseBalance, ctx.pool.price)
                              + ctx.vault.quoteBalance, Scale \div 2),
                        Mul(ctx.vault.baseBalance, ctx.pool.price) + ctx.vault.quoteBalance))
                    >= ctx.params.driftThreshold
      [] name = "reward-compound" ->
             ctx.vault.unclaimedRewardsUsd >= ctx.params.rewardsClaimUsd

\* the context the evaluator was called on
CallCtx == [pool |-> call.pool, vault |-> call.vault, params |-> BaseConfig.rebalanceParams,
            nowMs |-> 0]

\* C26: a decision with shouldRebalance = true, from a strategy or from
\* pickBest, has an expected gain of at least gasUsd * minGasMultiple and the
\* score expectedGain - gasUsd; a strategy whose trigger holds while the gate
\* fails returns shouldRebalance = false with the single action NOOP and that
\* same finite score.
C26_GasGate ==
    pc = "evaluated" =>
        /\ decision.shouldRebalance =>
               \E name \in {IF call.fn = "pickBest" THEN decision.strategy ELSE call.fn} :
               \E gain \in {expectedGainUsd(name, CallCtx)} :
                   /\ gain >= Mul(call.pool.gasUsd, defaultParams.minGasMultiple)
                   /\ decision.score = Fin(gain - call.pool.gasUsd)
        /\ (/\ call.fn # "pickBest"
            /\ Triggered(call.fn, CallCtx)
            /\ expectedGainUsd(call.fn, CallCtx)
                   < Mul(call.pool.gasUsd, defaultParams.minGasMultiple)) =>
               /\ ~decision.shouldRebalance
               /\ decision.actions = <<NoopAction>>
               /\ decision.score = Fin(expectedGainUsd(call.fn, CallCtx) - call.pool.gasUsd)
               /\ decision.score # NegInf

\* vetoed though the gain covers the gas cost
C26_Witness ==
    /\ pc = "evaluated"
    /\ call.fn \in {"range-around-twap", "trend-skew", "inventory-target"}
    /\ Triggered(call.fn, CallCtx)
    /\ ~decision.shouldRebalance
    /\ decision.score.fin
    /\ decision.score.v > 0

\* ------------------------------------------------------------------------
\* The strategies of a pool type, over a run
\* ------------------------------------------------------------------------

\* the action types applied or about to be applied in the run so far
TypesApplied ==
    UNION { { e.actions[k] : k \in 1..Len(e.actions) } :
                e \in { actionsLog[n] : n \in 1..Len(actionsLog) } }
    \cup { pending[k].type : k \in 1..Len(pending) }

\* C25: on a cl pool no SWAP is ever applied; on a volatile or stable pool no
\* REMOVE_LIQUIDITY or ADD_LIQUIDITY is ever applied, no position is seeded
\* and the vault has no position at any tick.
C25_StrategiesByPoolType ==
    /\ config.poolType = "cl" => "SWAP" \notin TypesApplied
    /\ config.poolType # "cl" =>
           /\ TypesApplied \cap {"REMOVE_LIQUIDITY", "ADD_LIQUIDITY"} = {}
           /\ pc # "seed"
           /\ vault # Undefined => ~vault.position.open

C25_Witness ==
    /\ pc = "done"
    /\ config.poolType # "cl"
    /\ "SWAP" \in TypesApplied
    /\ Len(equityCurve) = MaxTicks

\* ------------------------------------------------------------------------
\* Reward Compound in a run
\* ------------------------------------------------------------------------

\* the strategies are about to be evaluated on the vault the accrual left
AboutToDecide == pc = "decide" /\ RunsStrategies(i)

\* the decision being applied holds a CLAIM_REWARDS action
ClaimApplied ==
    /\ pc \in {"costs", "actions", "record"}
    /\ pre # Undefined
    /\ decision # Undefined
    /\ \E k \in 1..Len(decision.actions) : decision.actions[k].type = "CLAIM_REWARDS"

\* C27: on the vault of every tick, whatever the pool type, Reward Compound
\* returns the no-op with score minus infinity while the unclaimed rewards are
\* below rewardsClaimUsd, and proposes CLAIM_REWARDS, alone, only when they
\* are at least rewardsClaimUsd and at least gasUsd * minGasMultiple; a
\* CLAIM_REWARDS is applied only on a tick whose rewards after the accrual
\* are at least rewardsClaimUsd.
C27_RewardCompoundThreshold ==
    /\ AboutToDecide =>
           \E d \in {RewardCompoundDecide(Ctx)} :
               /\ vault.unclaimedRewardsUsd < config.rebalanceParams.rewardsClaimUsd =>
                      /\ ~d.shouldRebalance
                      /\ d.score = NegInf
                      /\ d.actions = <<NoopAction>>
               /\ d.shouldRebalance =>
                      /\ vault.unclaimedRewardsUsd >= config.rebalanceParams.rewardsClaimUsd
                      /\ vault.unclaimedRewardsUsd
                             >= Mul(pool.gasUsd, config.rebalanceParams.minGasMultiple)
                      /\ Len(d.actions) = 1
                      /\ d.actions[1].type = "CLAIM_REWARDS"
               /\ (\E k \in 1..Len(d.actions) : d.actions[k].type = "CLAIM_REWARDS") =>
                      d.shouldRebalance
    /\ ClaimApplied =>
           /\ pre.vault.unclaimedRewardsUsd >= config.rebalanceParams.rewardsClaimUsd
           /\ decision.strategy = "reward-compound"

C27_Witness ==
    /\ ClaimApplied
    /\ pc = "record"
    /\ vault.unclaimedRewardsUsd = 0
    /\ pre.vault.unclaimedRewardsUsd >= config.rebalanceParams.rewardsClaimUsd

\* ------------------------------------------------------------------------
\* The trigger of Range-Around-TWAP
\* ------------------------------------------------------------------------

\* the width of a range as a fraction of its own centre
RangeWidth(position) == Div(position.upper - position.lower, position.upper + position.lower)

\* const width = clamp(volToBandWidth(...), minBandWidth, maxBandWidth)
ComputedWidth(ctx) ==
    clamp(volToBandWidth(ctx.pool.vol, ctx.params.targetRebalanceHours, ctx.params.bandWidthK),
          ctx.params.minBandWidth, ctx.params.maxBandWidth)

\* Range-Around-TWAP was called on a cl pool with an open position
RangeEvaluated ==
    /\ pc = "evaluated"
    /\ call.fn = "range-around-twap"
    /\ call.pool.type = "cl"
    /\ call.vault.position.open

\* the price is outside the position's range
PriceLeftRange ==
    \/ call.pool.price < call.vault.position.lower
    \/ call.pool.price > call.vault.position.upper

\* the decision is not the no-op of an untriggered strategy
RangeTriggered == decision # noop("Price inside range; width stable")

\* C28: on a cl pool with an open position Range-Around-TWAP triggers exactly
\* when the price is outside the range or the computed width differs from the
\* width of the current range by more than 0.5 %; untriggered it returns the
\* no-op with score minus infinity; a decision to rebalance removes all the
\* liquidity and adds it on the computed width around the long TWAP.
C28_RangeTrigger ==
    RangeEvaluated =>
        \E width \in {ComputedWidth(CallCtx)} :
            /\ RangeTriggered <=>
                   \/ PriceLeftRange
                   \/ Abs(RangeWidth(call.vault.position) - width) > 50
            /\ ~RangeTriggered => ~decision.shouldRebalance /\ decision.score = NegInf
            /\ decision.shouldRebalance =>
                   /\ Len(decision.actions) = 2
                   /\ decision.actions[1] = [type |-> "REMOVE_LIQUIDITY", percent |-> Scale]
                   /\ decision.actions[2].type = "ADD_LIQUIDITY"
                   /\ decision.actions[2].lower = Mul(call.pool.twapLong, Scale - width)
                   /\ decision.actions[2].upper = Mul(call.pool.twapLong, Scale + width)

\* ------------------------------------------------------------------------
\* The capital of the evaluators and the value of the vault
\* ------------------------------------------------------------------------

\* C29: on every tick the value the evaluators take as capital equals the
\* engine's total value of the vault at the price of the tick, base balance
\* times price plus quote balance plus the value of the open position, and an
\* ADD_LIQUIDITY about to be applied carries that value as amountUsd.
C29_CapitalIsTotalValue ==
    /\ AboutToDecide => strategyTotalVaultValue(Ctx) = totalVaultValue(vault, pool.price)
    /\ (pc = "costs" /\ decision # Undefined) =>
           \A k \in 1..Len(decision.actions) :
               decision.actions[k].type = "ADD_LIQUIDITY" =>
                   decision.actions[k].amountUsd = totalVaultValue(vault, pool.price)

\* ------------------------------------------------------------------------
\* The initial seeding
\* ------------------------------------------------------------------------

\* seedInitialPosition has returned from a call on the vault a run starts
\* with, at the price of the first tick
SeededOnFirstTick ==
    /\ pc = "returned"
    /\ call.fn = "seedInitialPosition"
    /\ call.vault \in { InitialVault(c, call.pool.price) : c \in {Scale, 1000 * Scale} }

\* C30: the initial seeding opens a position on [price * (1 - w), price * (1 + w)]
\* with w the clamped width, takes from the idle balances the amounts the
\* sizing function consumed, and leaves the total value of the vault as it
\* was; the first equity point of a cl run is the initial capital.
C30_SeedingConservesValue ==
    /\ SeededOnFirstTick =>
           \E width \in {clamp(volToBandWidth(call.pool.vol, call.params.targetRebalanceHours,
                                             call.params.bandWidthK),
                              call.params.minBandWidth, call.params.maxBandWidth)} :
           \E lower \in {Mul(call.pool.price, Scale - width)} :
           \E upper \in {Mul(call.pool.price, Scale + width)} :
           \E r \in {addLiquidityAmounts(call.vault.baseBalance, call.vault.quoteBalance,
                                        lower, upper, call.pool.price)} :
           \E held \in {getPositionValueUsd(vault.position.liquidity, lower, upper,
                                           call.pool.price)} :
               /\ vault.position.open
               /\ vault.position.lower = lower
               /\ vault.position.upper = upper
               /\ vault.position.liquidity = r.liquidity
               /\ vault.baseBalance = Sub(call.vault.baseBalance, r.baseUsed)
               /\ vault.quoteBalance = Sub(call.vault.quoteBalance, r.quoteUsed)
               /\ ~IsNaN(held) /\ ~IsInf(held)
               /\ Abs(Mul(vault.baseBalance, call.pool.price) + vault.quoteBalance + held
                      - totalVaultValue(call.vault, call.pool.price)) <= ValueTol
    /\ (config.poolType = "cl" /\ Len(equityCurve) >= 1) =>
           Abs(equityCurve[1].valueUsd - config.initialCapitalUsd) <= ValueTol

====
